---- MODULE Spec2Model ----
(***************************************************************************)
(* Roster normalisation and incremental merge of lukedg97/yahoo-ff-data:   *)
(* ff/get_team.py (get_team, roster_to_rows, _normalize_team_players_df)   *)
(* and common.py (save_parquet, validate_parquet).                         *)
(*                                                                         *)
(* A Python / polars value is a cell [k, v]: k is the value's type and v   *)
(* the sequence of its texts (one text for a scalar, the elements for a    *)
(* list, none for None).  A DataFrame is [columns, dtypes, rows]: the      *)
(* ordered column names, the dtype of every column and the rows, each a    *)
(* function from column name to cell.                                      *)
(***************************************************************************)
EXTENDS Integers, Sequences, FiniteSets, TLC

VARIABLES
    store,      \* Data/team_players.parquet: [kind, df], kind absent / corrupt / table
    store0,     \* the store as it was before the first run (history)
    standings,  \* Data/standings.parquet (the reference table): [kind, df]
    pc,         \* per process: the position of its get_team call
    run,        \* per process: the locals of its get_team call
    ret,        \* per process: what the last finished get_team call gave its caller
    runs,       \* number of get_team calls started so far
    nin,        \* normaliser harness: the DataFrame handed to the normaliser
    nout1,      \* normaliser harness: result of the first application
    nout2,      \* normaliser harness: result of applying it to its own output
    xin,        \* extractor harness: the arguments handed to roster_to_rows
    xout,       \* extractor harness: what roster_to_rows gave
    sin,        \* flattener harness: the raw standings handed to transform_standings
    sout,       \* flattener harness: what transform_standings gave
    flog,       \* cache harness: the fetch_player calls made so far, in order
    cache       \* per process: _PLAYER_CACHE, from cache key to lookup result

\* the harness variables of the extractor, of the standings flattener and of
\* the enrichment cache
ext == <<xin, xout, sin, sout, flog>>

vars == <<store, store0, standings, pc, run, ret, runs, nin, nout1, nout2, ext, cache>>

-----------------------------------------------------------------------------
(* Generic helpers *)

Range(s) == {s[i] : i \in DOMAIN s}

\* the elements of s, in order, that are not in the set S
RECURSIVE Without(_, _)
Without(s, S) ==
    IF s = <<>> THEN <<>>
    ELSE IF Head(s) \in S THEN Without(Tail(s), S)
         ELSE <<Head(s)>> \o Without(Tail(s), S)

-----------------------------------------------------------------------------
(* Cells: Python values and polars cell values *)

Null == [k |-> "null", v |-> <<>>]
PyStr(s) == [k |-> "str", v |-> <<s>>]
PyInt(s) == [k |-> "int", v |-> <<s>>]
PyFloat(s) == [k |-> "float", v |-> <<s>>]
PyList(q) == [k |-> "list", v |-> q]

IsNull(c) == c.k = "null"
Text(c) == c.v[1]

Digits == {"0", "1", "2", "3", "4", "5", "6", "7", "8", "9"}

IsDigits(s) == Len(s) > 0 /\ \A i \in 1..Len(s) : SubSeq(s, i, i) \in Digits

RECURSIVE StripLeadingZeros(_)
StripLeadingZeros(s) ==
    IF Len(s) > 1 /\ SubSeq(s, 1, 1) = "0"
    THEN StripLeadingZeros(SubSeq(s, 2, Len(s)))
    ELSE s

RECURSIVE StripTrailingZeros(_)
StripTrailingZeros(s) ==
    IF Len(s) > 1 /\ SubSeq(s, Len(s), Len(s)) = "0"
    THEN StripTrailingZeros(SubSeq(s, 1, Len(s) - 1))
    ELSE s

IsNegative(s) == Len(s) > 1 /\ SubSeq(s, 1, 1) = "-"
Magnitude(s) == IF IsNegative(s) THEN SubSeq(s, 2, Len(s)) ELSE s

\* text of a base-10 integer, optionally signed
IsIntText(s) == IsDigits(Magnitude(s))

\* canonical text of the integer a text denotes ("007" is 7, "-0" is 0)
IntCanon(s) ==
    LET m == StripLeadingZeros(Magnitude(s))
    IN  IF IsNegative(s) /\ m # "0" THEN "-" \o m ELSE m

DotAt(s) == {i \in 1..Len(s) : SubSeq(s, i, i) = "."}

\* text of a decimal number: an integer, or integer "." digits
IsFloatText(s) ==
    \/ IsIntText(s)
    \/ /\ Cardinality(DotAt(s)) = 1
       /\ LET d == CHOOSE i \in DotAt(s) : TRUE
          IN  IsIntText(SubSeq(s, 1, d - 1)) /\ IsDigits(SubSeq(s, d + 1, Len(s)))

\* canonical text of the float a text denotes ("3" is 3.0, "1.50" is 1.5)
FloatCanon(s) ==
    IF IsIntText(s) THEN IntCanon(s) \o ".0"
    ELSE LET d == CHOOSE i \in DotAt(s) : TRUE
             ip == StripLeadingZeros(Magnitude(SubSeq(s, 1, d - 1)))
             fp == StripTrailingZeros(SubSeq(s, d + 1, Len(s)))
         IN  (IF IsNegative(s) /\ ~(ip = "0" /\ fp = "0") THEN "-" ELSE "") \o ip \o "." \o fp

\* the integer part of a canonical float text (a cast truncates toward zero)
FloatTrunc(s) ==
    LET d == CHOOSE i \in DotAt(s) : TRUE
    IN  IntCanon(SubSeq(s, 1, d - 1))

\* ",".join([str(x) for x in v])
RECURSIVE Join(_)
Join(q) ==
    IF q = <<>> THEN ""
    ELSE IF Len(q) = 1 THEN Head(q)
         ELSE Head(q) \o "," \o Join(Tail(q))

-----------------------------------------------------------------------------
(* polars dtypes and casts *)

DTypes == {"Null", "Utf8", "Int64", "Float64", "List"}

\* the Python type of the values a column of a dtype holds
KindOf(dtype) ==
    CASE dtype = "Utf8" -> "str"
      [] dtype = "Int64" -> "int"
      [] dtype = "Float64" -> "float"
      [] dtype = "List" -> "list"
      [] OTHER -> "null"

\* pl.col(c).cast(to, strict=False) on one cell: what cannot be coerced is null.
\* The model hands it scalars only: the two list-valued position columns are
\* materialised to text before the cast.
CastCell(c, to) ==
    IF IsNull(c) \/ to = "Null" THEN Null
    ELSE IF c.k = "list" THEN Null
    ELSE IF to = "Utf8" THEN PyStr(Text(c))
    ELSE IF to = "Int64" THEN
        (IF c.k = "int" THEN c
         ELSE IF c.k = "float" THEN PyInt(FloatTrunc(Text(c)))
         ELSE IF c.k = "str" /\ IsIntText(Text(c)) THEN PyInt(IntCanon(Text(c)))
         ELSE Null)
    ELSE
        (IF c.k = "float" THEN c
         ELSE IF c.k = "int" THEN PyFloat(FloatCanon(Text(c)))
         ELSE IF c.k = "str" /\ IsFloatText(Text(c)) THEN PyFloat(FloatCanon(Text(c)))
         ELSE Null)

-----------------------------------------------------------------------------
(* DataFrames *)

Height(df) == Len(df.rows)
ColSet(df) == Range(df.columns)

EmptyDF == [columns |-> <<>>, dtypes |-> <<>>, rows |-> <<>>]

\* df.with_columns(<series of cells>.alias(c)): replaces c in place, or appends it
WithColumn(df, c, dtype, cells) ==
    [columns |-> IF c \in ColSet(df) THEN df.columns ELSE Append(df.columns, c),
     dtypes  |-> [x \in ColSet(df) \cup {c} |-> IF x = c THEN dtype ELSE df.dtypes[x]],
     rows    |-> [i \in 1..Height(df) |->
                    [x \in ColSet(df) \cup {c} |-> IF x = c THEN cells[i] ELSE df.rows[i][x]]]]

\* df.select(names), names all present
Select(df, names) ==
    [columns |-> names,
     dtypes  |-> [x \in Range(names) |-> df.dtypes[x]],
     rows    |-> [i \in 1..Height(df) |-> [x \in Range(names) |-> df.rows[i][x]]]]

\* every cell of a column has the column's dtype (or is null)
WellTyped(df) ==
    /\ DOMAIN df.dtypes = ColSet(df)
    /\ \A i \in 1..Len(df.columns) : \A j \in 1..Len(df.columns) :
            df.columns[i] = df.columns[j] => i = j
    /\ \A x \in ColSet(df) : df.dtypes[x] \in DTypes
    /\ \A i \in 1..Height(df) :
            /\ DOMAIN df.rows[i] = ColSet(df)
            /\ \A x \in ColSet(df) :
                    IsNull(df.rows[i][x]) \/ df.rows[i][x].k = KindOf(df.dtypes[x])

-----------------------------------------------------------------------------
(* _normalize_team_players_df, ff/get_team.py *)

\* the canonical column list
cols ==
    <<"team_key", "team_name", "player",
      "player_positions", "week", "team_position", "points",
      "player_id", "player_name", "player_status", "position_type",
      "eligible_positions", "selected_position",
      "player_full_name", "primary_position",
      "pass_yds", "pass_td", "interceptions",
      "rush_att", "rush_yds", "rush_td",
      "rec", "rec_yds", "rec_td", "targets", "fum_lost", "total_points">>

StatCols ==
    {"pass_yds", "pass_td", "interceptions", "rush_att", "rush_yds", "rush_td",
     "rec", "rec_yds", "rec_td", "targets", "fum_lost", "total_points"}

\* the dtype the cast block gives each column it names
CastTarget(c) ==
    IF c = "week" THEN "Int64"
    ELSE IF c = "points" \/ c \in StatCols THEN "Float64"
    ELSE "Utf8"

\* the columns the cast block names: the canonical ones and two that are not
CastCols == Range(cols) \cup {"player_metadata", "player_stats"}

\* the declared canonical schema (spec 6): name -> type
DeclaredType(c) ==
    IF c = "week" THEN "Int64"
    ELSE IF c = "points" \/ c \in StatCols THEN "Float64"
    ELSE "Utf8"

\* for c in cols: if c not in df.columns: df = df.with_columns(pl.lit(None).alias(c))
AddMissing(df) ==
    LET missing == Without(cols, ColSet(df))
        all == df.columns \o missing
    IN  [columns |-> all,
         dtypes  |-> [x \in Range(all) |-> IF x \in ColSet(df) THEN df.dtypes[x] ELSE "Null"],
         rows    |-> [i \in 1..Height(df) |->
                        [x \in Range(all) |-> IF x \in ColSet(df) THEN df.rows[i][x] ELSE Null]]]

\* the typed-null series that replaces a Null-typed canonical column
TypedNull(c) ==
    IF c = "week" THEN "Int64" ELSE IF c = "points" THEN "Float64" ELSE "Utf8"

\* for c in cols: if str(df[c].dtype) == "Null": replace by a typed all-null series
TypeNullColumns(df) ==
    [df EXCEPT !.dtypes = [x \in ColSet(df) |->
        IF x \in Range(cols) /\ df.dtypes[x] = "Null" THEN TypedNull(x) ELSE df.dtypes[x]]]

\* mutant of Materialize: of a list only the first element is kept
MaterializeFirst(c) ==
    IF c.k = "list" THEN PyStr(IF c.v = <<>> THEN "" ELSE Head(c.v))
    ELSE IF IsNull(c) THEN Null
    ELSE PyStr(Text(c))

\* one value of a position column: list -> joined text, None -> None, else str(v)
Materialize(c) ==
    IF c.k = "list" THEN PyStr(Join(c.v))
    ELSE IF IsNull(c) THEN Null
    ELSE PyStr(Text(c))

\* pl.Series(converted).cast(pl.Utf8).alias(name)
MaterializeColumn(df, name) ==
    WithColumn(df, name, "Utf8", [i \in 1..Height(df) |-> Materialize(df.rows[i][name])])

\* df.with_columns([pl.col(c).cast(T, strict=False) ...]) over the named columns
CastColumns(df, names) ==
    [columns |-> df.columns,
     dtypes  |-> [x \in ColSet(df) |-> IF x \in names THEN CastTarget(x) ELSE df.dtypes[x]],
     rows    |-> [i \in 1..Height(df) |->
                    [x \in ColSet(df) |->
                        IF x \in names THEN CastCell(df.rows[i][x], CastTarget(x))
                        ELSE df.rows[i][x]]]]

\* the first alias of a list that is a column of the frame, "" when none is
FirstPresent(names, df) ==
    LET at == {i \in 1..Len(names) : names[i] \in ColSet(df)}
    IN  IF at = {} THEN "" ELSE names[CHOOSE i \in at : \A j \in at : i <= j]

\* mapping = {k: v for k, v in zip(keys, names)}; mapping.get(key): the last row wins
MappingGet(s, key_col, name_col, key) ==
    LET at == {i \in 1..Height(s) : s.rows[i][key_col] = key}
    IN  IF at = {} THEN Null
        ELSE s.rows[CHOOSE i \in at : \A j \in at : j <= i][name_col]

\* mutant of FillTeamName: the mapped name replaces a name that is there
FillTeamNameOverwrite(df, st) ==
    LET key_col == FirstPresent(<<"team_key", "teamKey">>, st.df)
        name_col == FirstPresent(<<"Team", "name">>, st.df)
    IN  IF st.kind # "table" \/ key_col = "" \/ name_col = "" THEN df
        ELSE [df EXCEPT !.rows = [i \in 1..Height(df) |->
                [df.rows[i] EXCEPT !["team_name"] =
                    LET m == CastCell(MappingGet(st.df, key_col, name_col,
                                                 df.rows[i]["team_key"]), "Utf8")
                    IN  IF IsNull(m) THEN @ ELSE m]]]

\* mutant of FillTeamName: without a usable reference table the missing names
\* become empty texts
FillTeamNameBlank(df, st) ==
    LET key_col == FirstPresent(<<"team_key", "teamKey">>, st.df)
        name_col == FirstPresent(<<"Team", "name">>, st.df)
    IN  [df EXCEPT !.rows = [i \in 1..Height(df) |->
            [df.rows[i] EXCEPT !["team_name"] =
                IF ~IsNull(@) THEN @
                ELSE IF st.kind # "table" \/ key_col = "" \/ name_col = "" THEN PyStr("")
                ELSE CastCell(MappingGet(st.df, key_col, name_col, df.rows[i]["team_key"]),
                              "Utf8")]]]

\* the team_name fill from standings.parquet; any failure leaves df as it is
FillTeamName(df, st) ==
    LET null_count == Cardinality({i \in 1..Height(df) : IsNull(df.rows[i]["team_name"])})
        key_col == FirstPresent(<<"team_key", "teamKey">>, st.df)
        name_col == FirstPresent(<<"Team", "name">>, st.df)
    IN  IF null_count = 0 \/ st.kind # "table" \/ key_col = "" \/ name_col = "" THEN df
        ELSE [df EXCEPT !.rows = [i \in 1..Height(df) |->
                [df.rows[i] EXCEPT !["team_name"] =
                    IF IsNull(@)
                    THEN CastCell(MappingGet(st.df, key_col, name_col, df.rows[i]["team_key"]),
                                  "Utf8")
                    ELSE @]]]

\* lines 481-573: the cast block, the team_name fill and the final select, on
\* the frame c that lines 412-479 made of df
CastFillSelect(c, df, st) ==
    IF ~(CastCols \subseteq ColSet(c)) THEN [ok |-> FALSE, df |-> df]
    ELSE [ok |-> TRUE, df |-> Select(FillTeamName(CastColumns(c, CastCols), st), cols)]

\* _normalize_team_players_df(df) with standings.parquet in state st:
\* [ok, df], ok FALSE when the call raises (ColumnNotFoundError of the cast block)
_normalize_team_players_df(df, st) ==
    CastFillSelect(
        MaterializeColumn(
            MaterializeColumn(TypeNullColumns(AddMissing(df)), "player_positions"),
            "eligible_positions"),
        df, st)

\* a CanonicalTable: exactly the declared columns, in order, with the declared types
IsCanonical(df) ==
    /\ df.columns = cols
    /\ \A x \in Range(cols) : df.dtypes[x] = DeclaredType(x)
    /\ WellTyped(df)

-----------------------------------------------------------------------------
(* The reference table Data/standings.parquet *)

File(kind, df) == [kind |-> kind, df |-> df]

Absent == File("absent", EmptyDF)
Corrupt == File("corrupt", EmptyDF)

\* team keys of the league; the first is the one the spec's example maps
TeamKeys == <<"449.l.1.t.2", "449.l.1.t.9">>

MakeStandings(key_col, name_col, keys, names) ==
    [columns |-> <<key_col, name_col>>,
     dtypes  |-> [x \in {key_col, name_col} |-> "Utf8"],
     rows    |-> [i \in 1..Len(keys) |->
                    [x \in {key_col, name_col} |-> IF x = key_col THEN keys[i] ELSE names[i]]]]

\* a reference table with both aliases of the key and both of the name: team_key
\* and Team map the first team key, teamKey and name the second
BothAliases ==
    [columns |-> <<"teamKey", "name", "team_key", "Team">>,
     dtypes  |-> [x \in {"teamKey", "name", "team_key", "Team"} |-> "Utf8"],
     rows    |-> <<[teamKey  |-> PyStr(TeamKeys[2]), name |-> PyStr("Wrong Name"),
                    team_key |-> PyStr(TeamKeys[1]), Team |-> PyStr("Gridiron Giants")]>>]

\* states of the reference table the model starts from: missing, unreadable,
\* keyed by team_key / Team, keyed by teamKey / name, without a key column, and
\* with both aliases
StandingsStates ==
    {Absent, Corrupt, File("table", BothAliases),
     File("table", MakeStandings("team_key", "Team",
            <<PyStr(TeamKeys[1])>>, <<PyStr("Gridiron Giants")>>)),
     File("table", MakeStandings("teamKey", "name",
            <<PyStr(TeamKeys[1]), PyStr(TeamKeys[1])>>, <<PyStr("Old Name"), PyStr("Giants")>>)),
     File("table", MakeStandings("Rank", "Team",
            <<PyStr("1")>>, <<PyStr("Gridiron Giants")>>))}

-----------------------------------------------------------------------------
(* Sample frames handed to the normaliser *)

MaxNormRows == 2

\* the columns roster_to_rows gives a mapping-shaped record, in insertion order
ExtractorCols ==
    <<"team_key", "team_name", "player",
      "player_positions", "week", "team_position", "points",
      "player_id", "player_name", "player_status", "position_type",
      "eligible_positions", "selected_position",
      "player_metadata", "player_stats",
      "player_full_name", "primary_position",
      "pass_yds", "pass_td", "interceptions",
      "rush_att", "rush_yds", "rush_td",
      "rec", "rec_yds", "rec_td", "targets", "fum_lost", "total_points">>

\* the columns of the original roster schema (get_team.py before enrichment)
LegacyCols ==
    <<"team_key", "team_name", "player",
      "player_positions", "week", "team_position", "points">>

RECURSIVE Reverse(_)
Reverse(s) == IF s = <<>> THEN <<>> ELSE Append(Reverse(Tail(s)), Head(s))

\* columns whose presence the sample frames vary independently
ProbeCols == <<"team_name", "player_positions", "week", "points",
               "player_metadata", "player_stats">>

SampleColumnLists ==
    {cols, ExtractorCols, LegacyCols, Reverse(ExtractorCols),
     Append(ExtractorCols, "extra")}
    \cup {Without(ProbeCols, S) : S \in (SUBSET Range(ProbeCols)) \ {Range(ProbeCols)}}
    \cup {Reverse(Without(ProbeCols, S)) : S \in (SUBSET Range(ProbeCols)) \ {Range(ProbeCols)}}

Typings == {"null", "typed", "text", "cross"}

SampleDtype(typing, c) ==
    CASE typing = "null" -> "Null"
      [] typing = "text" -> "Utf8"
      [] typing = "typed" ->
            (IF c \in {"player_positions", "eligible_positions"} THEN "List"
             ELSE IF c \in {"player_metadata", "player_stats"} THEN "Null"
             ELSE DeclaredType(c))
      [] OTHER ->
            (IF c = "week" THEN "Float64"
             ELSE IF c = "points" \/ c \in StatCols THEN "Int64"
             ELSE IF c \in {"player_positions", "team_key"} THEN "Int64"
             ELSE "Utf8")

\* a value of the column's sample dtype; variant 2 has the nulls and the odd
\* texts, but for the team_name, which the frames of texts lack in variant 1
SampleCell(typing, variant, c) ==
    LET dt == SampleDtype(typing, c)
    IN  CASE dt = "Null" -> Null
          [] dt = "List" -> IF variant = 1 THEN PyList(<<"QB", "WR">>) ELSE Null
          [] dt = "Int64" -> IF variant = 1 THEN PyInt("3") ELSE PyInt("0")
          [] dt = "Float64" -> IF variant = 1 THEN PyFloat("12.5") ELSE PyFloat("-0.5")
          [] OTHER ->
                (IF c = "team_key" THEN PyStr(TeamKeys[variant])
                 ELSE IF c = "team_name" THEN
                    (IF typing = "text"
                     THEN (IF variant = 1 THEN Null ELSE PyStr("Team B"))
                     ELSE (IF variant = 1 THEN PyStr("Team A") ELSE Null))
                 ELSE IF c = "week" THEN PyStr(IF variant = 1 THEN "007" ELSE "abc")
                 ELSE IF c = "points" THEN PyStr(IF variant = 1 THEN "1.50" ELSE "n/a")
                 ELSE IF c \in StatCols THEN PyStr(IF variant = 1 THEN "4" ELSE "")
                 ELSE IF variant = 1 THEN PyStr("QB") ELSE Null)

MakeFrame(columns, typing, variants) ==
    [columns |-> columns,
     dtypes  |-> [x \in Range(columns) |-> SampleDtype(typing, x)],
     rows    |-> [i \in 1..Len(variants) |->
                    [x \in Range(columns) |-> SampleCell(typing, variants[i], x)]]]

VariantSeqs(n) == UNION {[1..m -> {1, 2}] : m \in 0..n}

SampleFrames ==
    {MakeFrame(cl, ty, vs) :
        cl \in SampleColumnLists, ty \in Typings, vs \in VariantSeqs(MaxNormRows)}

-----------------------------------------------------------------------------
(* Python values of the roster payload *)

\* bool(x): None, "", 0, 0.0 and [] are falsy
Truthy(c) ==
    CASE c.k = "null" -> FALSE
      [] c.k = "list" -> c.v # <<>>
      [] c.k = "str" -> Text(c) # ""
      [] c.k = "int" -> Text(c) # "0"
      [] OTHER -> Text(c) \notin {"0.0", "-0.0"}

\* a or b or ... : the first truthy operand, else the last one
RECURSIVE OrChain(_)
OrChain(q) ==
    IF Len(q) = 1 \/ Truthy(Head(q)) THEN Head(q) ELSE OrChain(Tail(q))

\* the empty mapping {}
EmptyDict == [x \in {} |-> Null]

\* d.get(k) on a mapping d (a function from keys to cells)
Get(d, k) == IF k \in DOMAIN d THEN d[k] ELSE Null

\* g(d, *keys): the value of the first key that is in d, whatever the value
RECURSIVE G(_, _)
G(d, keys) ==
    IF keys = <<>> THEN Null
    ELSE IF Head(keys) \in DOMAIN d THEN d[Head(keys)]
         ELSE G(d, Tail(keys))

\* a roster record: a mapping, a bare string, or anything else (kept as its repr)
DictItem(d) == [shape |-> "dict", d |-> d, s |-> ""]
StrItem(s) == [shape |-> "str", d |-> EmptyDict, s |-> s]
OtherItem(r) == [shape |-> "other", d |-> EmptyDict, s |-> r]

ItemAnn ==
    DictItem([player_key |-> PyStr("p1"), name |-> PyStr("Ann"),
              eligible_positions |-> PyList(<<"QB", "WR">>),
              selected_position |-> PyStr("QB"), points |-> PyFloat("12.5")])

ItemBob ==
    DictItem([player_id |-> PyStr("p2"), full_name |-> PyStr("Bob"),
              positions |-> PyList(<<"RB">>), slot |-> PyStr("BN"),
              projected_points |-> PyFloat("3.0"), status |-> PyStr("Q")])

PlayerKeys == {"p1", "p2"}

\* rosters the upstream API answers with
RosterDicts == <<ItemAnn, ItemBob>>
RosterStrs == <<StrItem("p3")>>
RosterMixed == <<StrItem("p3"), ItemAnn, OtherItem("(1, 2)")>>

\* the rosters the get_team runs of the model are answered with
Rosters == {RosterDicts, RosterStrs}

\* which players' lookups answer during a run: all of them, or all but p2
Apis == {[k \in PlayerKeys |-> "ok"], [k \in PlayerKeys |-> IF k = "p2" THEN "fail" ELSE "ok"]}

-----------------------------------------------------------------------------
(* fetch_player, ff/get_player.py: the payload of one enrichment lookup *)

\* what the Player / League calls give for one player when they answer
PlayerInfo(player) ==
    [full_name |-> PyStr(player \o " full"), primaryPosition |-> PyStr("QB")]

PlayerStats(player) ==
    [PassYds |-> PyFloat("250.0"), total_points |-> PyStr("18.5")]

\* mutant of fetch_player: a lookup that fails is answered all the same
fetch_player_always(api, player) ==
    [metadata |-> PlayerInfo(player), stats |-> PlayerStats(player), none |-> FALSE]

\* result = {"metadata": info, "stats": stats}; every failing call leaves None
fetch_player(api, player) ==
    IF player \in DOMAIN api /\ api[player] = "ok"
    THEN [metadata |-> PlayerInfo(player), stats |-> PlayerStats(player), none |-> FALSE]
    ELSE [metadata |-> EmptyDict, stats |-> EmptyDict, none |-> TRUE]

\* mutant of cache_key: the week is left out of the key
cache_key_no_week(player_key, stat_type, week) ==
    player_key \o "::" \o stat_type

\* line 32: f"{player_key}::{stat_type}::{week if week is not None else 'None'}"
cache_key(player_key, stat_type, week) ==
    player_key \o "::" \o stat_type \o "::" \o (IF IsNull(week) THEN "None" ELSE Text(week))

\* mutant of Put: the entry written replaces the cache
PutAlone(c, k, result) == [x \in {k} |-> result]

\* _PLAYER_CACHE[cache_key] = result
Put(c, k, result) == [x \in DOMAIN c \cup {k} |-> IF x = k THEN result ELSE c[x]]

\* lines 29-35 and 112-120: fetch_player on the cache c of its process; an
\* entry is returned as it is, else the lookups are made and their result
\* stored: [result, cache, external], external TRUE when the lookups were made
fetch_player_cached(c, api, player_key, stat_type, week) ==
    IF cache_key(player_key, stat_type, week) \in DOMAIN c
    THEN [result |-> c[cache_key(player_key, stat_type, week)], cache |-> c,
          external |-> FALSE]
    ELSE [result |-> fetch_player(api, player_key),
          cache |-> Put(c, cache_key(player_key, stat_type, week),
                        fetch_player(api, player_key)),
          external |-> TRUE]

\* float(str(tp)) under try / except: None when the text is no number
FloatOfStr(c) ==
    IF IsNull(c) \/ c.k = "list" THEN Null
    ELSE IF IsFloatText(Text(c)) THEN PyFloat(FloatCanon(Text(c)))
    ELSE Null

-----------------------------------------------------------------------------
(* roster_to_rows, ff/get_team.py *)

\* team_name looked up in standings.parquet when the payload has none
LookupTeamName(st, team_key) ==
    IF st.kind # "table" THEN Null
    ELSE LET s == st.df
             kc == IF "team_key" \in ColSet(s) THEN "team_key"
                   ELSE IF "teamKey" \in ColSet(s) THEN "teamKey"
                   ELSE "Team"
             hit == IF kc \in ColSet(s)
                    THEN {i \in 1..Height(s) : s.rows[i][kc] = PyStr(team_key)}
                    ELSE {}
             first == CHOOSE i \in hit : \A j \in hit : i <= j
         IN  IF hit = {} THEN Null
             ELSE IF "Team" \in ColSet(s) THEN s.rows[first]["Team"]
             ELSE IF "name" \in ColSet(s) THEN s.rows[first]["name"]
             ELSE Null

\* the enrichment fields of a mapping-shaped record, all None before the lookup
NoEnrichment ==
    [c \in {"player_metadata", "player_stats", "player_full_name", "primary_position"}
            \cup StatCols |-> Null]

\* the fields the lookup's payload sets (lines 318-376)
Enrichment(payload, name) ==
    LET md == payload.metadata
        st == payload.stats
        tp == G(st, <<"total_points", "Total Points", "total_points">>)
    IN  [c \in DOMAIN NoEnrichment |->
            CASE c = "player_full_name" ->
                    OrChain(<<Get(md, "full_name"), Get(md, "fullName"),
                              Get(md, "full_name"), name>>)
              [] c = "primary_position" ->
                    OrChain(<<Get(md, "primary_position"), Get(md, "primaryPosition")>>)
              [] c = "pass_yds" -> G(st, <<"Pass Yds", "PassYds", "pass_yds">>)
              [] c = "pass_td" -> G(st, <<"Pass TD", "PassTD", "pass_td">>)
              [] c = "interceptions" -> G(st, <<"Int", "INT", "interceptions">>)
              [] c = "rush_att" -> G(st, <<"Rush Att", "RushAtt", "rush_att">>)
              [] c = "rush_yds" -> G(st, <<"Rush Yds", "RushYds", "rush_yds">>)
              [] c = "rush_td" -> G(st, <<"Rush TD", "RushTD", "rush_td">>)
              [] c = "rec" -> G(st, <<"Rec", "REC", "rec">>)
              [] c = "rec_yds" -> G(st, <<"Rec Yds", "RecYds", "rec_yds">>)
              [] c = "rec_td" -> G(st, <<"Rec TD", "RecTD", "rec_td">>)
              [] c = "targets" -> G(st, <<"Targets", "targets">>)
              [] c = "fum_lost" -> G(st, <<"Fum Lost", "FumLost", "fum_lost">>)
              [] c = "total_points" -> FloatOfStr(tp)
              [] OTHER -> Null]

\* x or None
OrNone(c) == IF Truthy(c) THEN c ELSE Null

\* line 259: row = {"team_key": team_key, "team_name": team_name}
BaseRow(team_key, team_name) ==
    [c \in {"team_key", "team_name"} |->
        IF c = "team_key" THEN PyStr(team_key) ELSE team_name]

\* the update both non-mapping branches make: player set, four keys None
BareRow(base, player) ==
    [c \in Range(LegacyCols) |->
        CASE c \in DOMAIN base -> base[c]
          [] c = "player" -> player
          [] OTHER -> Null]

\* mutant of StrRow: a bare string is given the week of the roster it came with
StrRowWithWeek(item, base, roster_week) ==
    [BareRow(base, PyStr(item.s)) EXCEPT !["week"] = roster_week]

\* lines 380-382: a bare string is the player, whatever roster_week is
StrRow(item, base, roster_week) == BareRow(base, PyStr(item.s))

\* mutant of OtherRow: a record of an unknown type leaves no trace of itself
OtherRowNoRepr(item, base) == BareRow(base, Null)

\* lines 383-386: anything else is kept as repr(item), in the player key too
OtherRow(item, base) == BareRow(base, PyStr(item.s))

\* the row of one roster record: a function from the keys it sets to cells
ItemRow(item, team_key, team_name, api, roster_week) ==
    LET base == BaseRow(team_key, team_name)
        d == item.d
        player == OrChain(<<Get(d, "player_key"), Get(d, "playerKey"),
                            Get(d, "player_id"), Get(d, "id")>>)
        name == OrChain(<<Get(d, "name"), Get(d, "full_name"), Get(d, "player_name")>>)
        positions == OrChain(<<Get(d, "eligible_positions"), Get(d, "positions"),
                               Get(d, "position")>>)
        week == OrChain(<<Get(d, "week"), Get(d, "week_number"), roster_week>>)
        team_position == OrChain(<<Get(d, "selected_position"), Get(d, "lineup_position"),
                                   Get(d, "slot")>>)
        points == OrChain(<<Get(d, "points"), Get(d, "projected_points"),
                            Get(d, "season_points")>>)
        enrich == IF Truthy(player) /\ player.k # "list"
                  THEN Enrichment(fetch_player(api, Text(player)), name)
                  ELSE NoEnrichment
    IN  IF item.shape = "dict"
        THEN [c \in Range(ExtractorCols) |->
                CASE c \in DOMAIN base -> base[c]
                  [] c = "player" -> OrChain(<<player, name>>)
                  [] c = "player_positions" -> positions
                  [] c = "week" -> week
                  [] c = "team_position" -> team_position
                  [] c = "points" -> points
                  [] c = "player_id" -> OrNone(player)
                  [] c = "player_name" -> OrNone(name)
                  [] c = "player_status" ->
                        OrNone(OrChain(<<Get(d, "status"), Get(d, "injury_status")>>))
                  [] c = "position_type" -> OrNone(Get(d, "position_type"))
                  [] c = "eligible_positions" -> positions
                  [] c = "selected_position" ->
                        OrNone(OrChain(<<Get(d, "selected_position"), Get(d, "selectedPos")>>))
                  [] OTHER -> enrich[c]]
        ELSE IF item.shape = "str" THEN StrRow(item, base, roster_week)
        ELSE OtherRow(item, base)

\* lines 311-317 over the roster: the cache of the process after the lookups
\* of the mapping-shaped records that have a player key
RECURSIVE CacheAfter(_, _, _, _)
CacheAfter(c, roster, api, roster_week) ==
    IF roster = <<>> THEN c
    ELSE CacheAfter(
            IF Head(roster).shape = "dict"
               /\ Truthy(OrChain(<<Get(Head(roster).d, "player_key"),
                                   Get(Head(roster).d, "playerKey"),
                                   Get(Head(roster).d, "player_id"),
                                   Get(Head(roster).d, "id")>>))
            THEN fetch_player_cached(c, api,
                    Text(OrChain(<<Get(Head(roster).d, "player_key"),
                                   Get(Head(roster).d, "playerKey"),
                                   Get(Head(roster).d, "player_id"),
                                   Get(Head(roster).d, "id")>>)),
                    "week",
                    OrChain(<<Get(Head(roster).d, "week"),
                              Get(Head(roster).d, "week_number"), roster_week>>)).cache
            ELSE c,
            Tail(roster), api, roster_week)

\* the dtype pl.DataFrame(rows) infers for a column from its non-null values;
\* "" when the values have no common dtype and the constructor raises
InferDtype(cells) ==
    LET kinds == {cells[i].k : i \in DOMAIN cells} \ {"null"}
    IN  CASE kinds = {} -> "Null"
          [] kinds = {"str"} -> "Utf8"
          [] kinds = {"int"} -> "Int64"
          [] kinds = {"float"} -> "Float64"
          [] kinds = {"list"} -> "List"
          [] OTHER -> ""

\* pl.DataFrame(rows): the columns are the keys of the rows in first-seen order,
\* a key a row lacks is null there; [ok, df], ok FALSE when it raises
FromRows(rows) ==
    LET keys == UNION {DOMAIN rows[i] : i \in DOMAIN rows}
        columns == Without(ExtractorCols, Range(ExtractorCols) \ keys)
        cell(i, c) == IF c \in DOMAIN rows[i] THEN rows[i][c] ELSE Null
        dtypes == [c \in keys |-> InferDtype([i \in DOMAIN rows |-> cell(i, c)])]
    IN  IF \E c \in keys : dtypes[c] = "" THEN [ok |-> FALSE, df |-> EmptyDF]
        ELSE [ok |-> TRUE,
              df |-> [columns |-> columns, dtypes |-> dtypes,
                      rows |-> [i \in DOMAIN rows |-> [c \in keys |-> cell(i, c)]]]]

\* lines 216-241 and 257-388: the list of row dicts built from the roster
RosterRows(name, roster, team_key, st, api, roster_week) ==
    LET team_name == IF Truthy(name) THEN name ELSE LookupTeamName(st, team_key)
    IN  [i \in 1..Len(roster) |->
            ItemRow(roster[i], team_key, team_name, api, PyInt(ToString(roster_week)))]

\* roster_to_rows(payload, team_key, sc, roster_week): [ok, none, df];
\* none when it returns None (no roster), ok FALSE when it raises
roster_to_rows(name, roster, team_key, st, api, roster_week) ==
    LET made == FromRows(RosterRows(name, roster, team_key, st, api, roster_week))
    IN  IF roster = <<>> THEN [ok |-> TRUE, none |-> TRUE, df |-> EmptyDF]
        ELSE [ok |-> made.ok, none |-> FALSE, df |-> made.df]

-----------------------------------------------------------------------------
(* get_team, ff/get_team.py, with save_parquet / validate_parquet of common.py *)

NumProcs == 1
Procs == 1..NumProcs

MaxWeek == 2
MaxRuns == 2

\* pl.concat(frames, how="vertical"): the frames must agree on column names,
\* order and dtypes; [ok, df], ok FALSE when it raises
RECURSIVE Concat(_)
Concat(frames) ==
    IF Len(frames) = 1 THEN [ok |-> TRUE, df |-> Head(frames)]
    ELSE LET rest == Concat(Tail(frames))
             a == Head(frames)
         IN  IF rest.ok /\ a.columns = rest.df.columns /\ a.dtypes = rest.df.dtypes
             THEN [ok |-> TRUE, df |-> [a EXCEPT !.rows = a.rows \o rest.df.rows]]
             ELSE [ok |-> FALSE, df |-> EmptyDF]

\* the player keys get_team returns, from the payload's roster (lines 169-183)
RECURSIVE player_keys(_)
player_keys(roster) ==
    IF roster = <<>> THEN <<>>
    ELSE LET item == Head(roster)
             pk == OrChain(<<Get(item.d, "player_key"), Get(item.d, "playerKey"),
                             Get(item.d, "player_id"), Get(item.d, "playerId")>>)
             here == IF item.shape = "dict" THEN (IF Truthy(pk) THEN <<pk>> ELSE <<>>)
                     ELSE IF item.shape = "str" THEN <<PyStr(item.s)>>
                     ELSE <<>>
         IN  here \o player_keys(Tail(roster))

\* the locals of a get_team call
NoRun ==
    [team_key |-> "", name |-> Null, roster |-> <<>>, api |-> EmptyDict,
     current_week |-> 0, wk |-> 0, answers |-> <<>>,
     all_rows |-> <<>>, roster_df |-> EmptyDF, normalized |-> FALSE,
     combined |-> EmptyDF, ioerr |-> FALSE, pre |-> Absent, seen |-> Absent,
     events |-> {}]

\* what the caller of a finished get_team call has seen, and what the call did
NoRet ==
    [status |-> "none", keys |-> <<>>, events |-> {}, pre |-> Absent,
     roster_df |-> EmptyDF, normalized |-> FALSE, combined |-> EmptyDF,
     ioerr |-> FALSE, roster |-> <<>>, seen |-> Absent]

Finish(p, r, status, keys) ==
    /\ pc' = [pc EXCEPT ![p] = "idle"]
    /\ run' = [run EXCEPT ![p] = NoRun]
    /\ ret' = [ret EXCEPT ![p] =
                [status |-> status, keys |-> keys, events |-> r.events, pre |-> r.pre,
                 roster_df |-> r.roster_df, normalized |-> r.normalized,
                 combined |-> r.combined, ioerr |-> r.ioerr, roster |-> r.roster,
                 seen |-> r.seen]]

\* a harness that has not been handed anything
NoCall == [called |-> FALSE]

\* the normaliser harness's record of one application
NotRun == [ran |-> FALSE, ok |-> FALSE, df |-> EmptyDF]

Ran(r) == [ran |-> TRUE, ok |-> r.ok, df |-> IF r.ok THEN r.df ELSE EmptyDF]

\* stores the model starts from: none, a canonical table (empty or not), a table
\* of the original 7-column schema, and a file that cannot be read
LegacyTable == MakeFrame(LegacyCols, "typed", <<1>>)
LegacyNormalized ==
    [LegacyTable EXCEPT !.dtypes["player_positions"] = "Utf8",
                        !.rows = [i \in 1..Height(LegacyTable) |->
                            [LegacyTable.rows[i] EXCEPT !["player_positions"] = Materialize(@)]]]

CanonicalTable(variants) ==
    LET f == MakeFrame(cols, "typed", variants)
    IN  [f EXCEPT !.dtypes = [x \in Range(cols) |-> DeclaredType(x)],
                  !.rows = [i \in 1..Height(f) |->
                        [x \in Range(cols) |-> IF f.rows[i][x].k = "list"
                                               THEN Materialize(f.rows[i][x])
                                               ELSE f.rows[i][x]]]]

InitialStores ==
    {Absent, Corrupt, File("table", LegacyNormalized), File("table", CanonicalTable(<<1, 2>>))}

\* the reference table of the runs: missing, or keyed by team_key / Team
RunStandings ==
    {st \in StandingsStates : st.kind = "absent" \/ st.df.columns = <<"team_key", "Team">>}

Init ==
    /\ store \in InitialStores
    /\ store0 = store
    /\ standings \in RunStandings
    /\ pc = [p \in Procs |-> "idle"]
    /\ run = [p \in Procs |-> NoRun]
    /\ ret = [p \in Procs |-> NoRet]
    /\ runs = 0
    /\ nin = EmptyDF
    /\ nout1 = NotRun
    /\ nout2 = NotRun
    /\ xin = NoCall /\ xout = NoCall
    /\ sin = NoCall /\ sout = NoCall
    /\ flog = <<>>
    /\ cache = [p \in Procs |-> EmptyDict]

\* lines 73-95: the Team fetch and the current week.  A failing fetch ends the
\* call in the outer handler, which returns [].
StartCall(p, fetched, name, roster, api, current_week) ==
    LET r == [NoRun EXCEPT !.team_key = TeamKeys[1], !.name = name,
                           !.roster = roster, !.api = api,
                           !.current_week = IF current_week = 0 THEN 1 ELSE current_week,
                           !.wk = 1, !.pre = store]
    IN  IF fetched
        THEN /\ pc' = [pc EXCEPT ![p] = "weeks"]
             /\ run' = [run EXCEPT ![p] = r]
             /\ ret' = [ret EXCEPT ![p] = NoRet]
        ELSE Finish(p, [r EXCEPT !.roster = <<>>,
                                 !.events = {"Team API fetch failed"}],
                    "returned", <<>>)

\* a get_team call of the pipeline, which runs its calls one after the other
FetchTeam(p) ==
    /\ pc[p] = "idle"
    /\ \A q \in Procs : pc[q] = "idle"
    /\ runs < MaxRuns
    /\ runs' = runs + 1
    /\ \E fetched \in BOOLEAN, name \in {Null, PyStr("Team A")},
          roster \in Rosters \cup {<<>>}, api \in Apis, current_week \in 0..MaxWeek :
            StartCall(p, fetched, name, roster, api, current_week)
    /\ cache' = [cache EXCEPT ![p] = EmptyDict]
    /\ UNCHANGED <<store, store0, standings, nin, nout1, nout2, ext>>

\* mutant of WeekOf: the frame of the week is put before those of the earlier weeks
WeekOfNewestFirst(p, answers) ==
    /\ pc[p] = "weeks"
    /\ LET r == run[p] IN
       \E answer \in answers :
            LET roster == IF answer # <<>> THEN answer ELSE r.roster
                got == roster_to_rows(r.name, roster, r.team_key, standings, r.api, r.wk)
                all_rows == IF got.ok /\ ~got.none /\ Height(got.df) > 0
                            THEN <<got.df>> \o r.all_rows ELSE r.all_rows
                events == IF got.ok THEN r.events
                          ELSE r.events \cup {"failed to fetch/flatten roster"}
            IN  /\ run' = [run EXCEPT ![p] = [r EXCEPT !.all_rows = all_rows,
                                                       !.events = events, !.wk = r.wk + 1,
                                                       !.answers = Append(@, answer)]]
                /\ pc' = [pc EXCEPT ![p] = IF r.wk = r.current_week THEN "append" ELSE "weeks"]
                /\ cache' = [cache EXCEPT ![p] =
                                CacheAfter(@, roster, r.api, PyInt(ToString(r.wk)))]
    /\ UNCHANGED <<store, store0, standings, ret, runs, nin, nout1, nout2, ext>>

\* lines 99-120: one iteration of the week loop, the week's roster call
\* answering with one of answers (<<>>: it raised or gave nothing)
WeekOf(p, answers) ==
    /\ pc[p] = "weeks"
    /\ LET r == run[p] IN
       \E answer \in answers :
            LET roster == IF answer # <<>> THEN answer ELSE r.roster
                got == roster_to_rows(r.name, roster, r.team_key, standings, r.api, r.wk)
                all_rows == IF got.ok /\ ~got.none /\ Height(got.df) > 0
                            THEN Append(r.all_rows, got.df) ELSE r.all_rows
                events == IF got.ok THEN r.events
                          ELSE r.events \cup {"failed to fetch/flatten roster"}
            IN  /\ run' = [run EXCEPT ![p] = [r EXCEPT !.all_rows = all_rows,
                                                       !.events = events, !.wk = r.wk + 1,
                                                       !.answers = Append(@, answer)]]
                /\ pc' = [pc EXCEPT ![p] = IF r.wk = r.current_week THEN "append" ELSE "weeks"]
                /\ cache' = [cache EXCEPT ![p] =
                                CacheAfter(@, roster, r.api, PyInt(ToString(r.wk)))]
    /\ UNCHANGED <<store, store0, standings, ret, runs, nin, nout1, nout2, ext>>

\* the week loop of the runs
Week(p) == WeekOf(p, Rosters \cup {<<>>})

\* the result of lines 122-161: the frame to write ("write"), nothing to append
\* ("skip"), or the exception that reaches the handler of line 165 ("raise")
Plan(todo, combined, why, roster_df, normalized) ==
    [todo |-> todo, combined |-> combined, why |-> why,
     roster_df |-> roster_df, normalized |-> normalized]

\* mutant of PlanCombined: the new rows replace the store instead of joining it
PlanCombinedOverwrite(both, roster_df, normalized) ==
    IF both.ok THEN Plan("write", roster_df, "", roster_df, normalized)
    ELSE Plan("raise", EmptyDF, "concat with existing", roster_df, normalized)

\* line 161: combined = pl.concat([existing, roster_df], how="vertical")
PlanCombined(both, roster_df, normalized) ==
    IF both.ok THEN Plan("write", both.df, "", roster_df, normalized)
    ELSE Plan("raise", EmptyDF, "concat with existing", roster_df, normalized)

\* lines 143-146: existing = _normalize_team_players_df(existing), kept as read
\* when the call raises
NormalizedOrSame(norm, df) == IF norm.ok THEN norm.df ELSE df

\* mutant of PlanAppend: the batch comes before the rows of the store
PlanAppendBatchFirst(roster_df, normalized, file, st, ioerr) ==
    IF file.kind = "absent" THEN Plan("write", roster_df, "", roster_df, normalized)
    ELSE IF file.kind = "corrupt" \/ ioerr
    THEN Plan("raise", EmptyDF, "read_parquet", roster_df, normalized)
    ELSE PlanCombined(
            Concat(<<roster_df,
                     NormalizedOrSame(_normalize_team_players_df(file.df, st), file.df)>>),
            roster_df, normalized)

\* lines 137-164, for the batch as it stands after the normalisation attempt
PlanAppend(roster_df, normalized, file, st, ioerr) ==
    IF file.kind = "absent" THEN Plan("write", roster_df, "", roster_df, normalized)
    ELSE IF file.kind = "corrupt" \/ ioerr
    THEN Plan("raise", EmptyDF, "read_parquet", roster_df, normalized)
    ELSE PlanCombined(
            Concat(<<NormalizedOrSame(_normalize_team_players_df(file.df, st), file.df),
                     roster_df>>),
            roster_df, normalized)

\* lines 130-136: the normalisation attempt on the batch
PlanNormalized(norm, cat, file, st, ioerr) ==
    PlanAppend(NormalizedOrSame(norm, cat.df), norm.ok, file, st, ioerr)

\* lines 122-129: the week frames concatenated
PlanBatch(cat, file, st, ioerr) ==
    IF ~cat.ok
    THEN Plan("raise", EmptyDF, "concat of the week frames", EmptyDF, FALSE)
    ELSE PlanNormalized(_normalize_team_players_df(cat.df, st), cat, file, st, ioerr)

\* mutant of MergePlan: a read that fails is taken for a store that is not there
MergePlanReadFailureAsEmpty(all_rows, file, st, ioerr) ==
    IF all_rows = <<>> THEN Plan("skip", EmptyDF, "", EmptyDF, FALSE)
    ELSE PlanBatch(Concat(all_rows),
                   IF file.kind = "corrupt" \/ ioerr THEN Absent ELSE file, st, FALSE)

\* lines 122-161, from the week frames and the file as it is read
MergePlan(all_rows, file, st, ioerr) ==
    IF all_rows = <<>> THEN Plan("skip", EmptyDF, "", EmptyDF, FALSE)
    ELSE PlanBatch(Concat(all_rows), file, st, ioerr)

\* what the call logs for a plan
PlanEvents(m) ==
    (IF m.roster_df # EmptyDF /\ ~m.normalized THEN {"normalization failed"} ELSE {})
    \cup (IF m.todo = "raise" THEN {"Failed to flatten roster", m.why} ELSE {})

\* the call goes on to save_parquet, or to the return of line 183
Merged(p, r, m) ==
    IF m.todo = "write"
    THEN /\ pc' = [pc EXCEPT ![p] = "write"]
         /\ run' = [run EXCEPT ![p] =
                [r EXCEPT !.roster_df = m.roster_df, !.normalized = m.normalized,
                          !.combined = m.combined, !.events = @ \cup PlanEvents(m)]]
         /\ ret' = ret
    ELSE Finish(p, [r EXCEPT !.roster_df = m.roster_df, !.normalized = m.normalized,
                             !.events = @ \cup PlanEvents(m)],
                "returned", player_keys(r.roster))

\* mutant of ReadAndMerge: the batch is joined to the store as it was when the
\* call started, not as it is when line 141 reads it
ReadAndMergeStale(p) ==
    /\ pc[p] = "append"
    /\ \E ioerr \in BOOLEAN :
            Merged(p, [run[p] EXCEPT !.ioerr = ioerr, !.seen = store],
                   MergePlan(run[p].all_rows, run[p].pre, standings, ioerr))
    /\ UNCHANGED <<store, store0, standings, runs, nin, nout1, nout2, ext, cache>>

\* lines 122-161: build the batch, normalise it, read the store and concatenate
ReadAndMerge(p) ==
    /\ pc[p] = "append"
    /\ \E ioerr \in BOOLEAN :
            Merged(p, [run[p] EXCEPT !.ioerr = ioerr, !.seen = store],
                   MergePlan(run[p].all_rows, store, standings, ioerr))
    /\ UNCHANGED <<store, store0, standings, runs, nin, nout1, nout2, ext, cache>>

\* df.write_parquet(path) opens the destination itself and writes it in place:
\* from the open until the footer is written the file is not a Parquet file
WriteBegin(p) ==
    /\ pc[p] = "write"
    /\ store' = Corrupt
    /\ pc' = [pc EXCEPT ![p] = "writing"]
    /\ UNCHANGED <<store0, standings, run, ret, runs, nin, nout1, nout2, ext, cache>>

WriteEnd(p) ==
    /\ pc[p] = "writing"
    /\ store' = File("table", run[p].combined)
    /\ run' = [run EXCEPT ![p].events = @ \cup {"Saved"}]
    /\ pc' = [pc EXCEPT ![p] = "validate"]
    /\ UNCHANGED <<store0, standings, ret, runs, nin, nout1, nout2, ext, cache>>

\* mutant of validate_parquet: a failed validation raises to save_parquet's caller
validate_parquet_raising(file, ioerr, duckdb) ==
    IF file.kind # "table" \/ ioerr
    THEN [raised |-> TRUE, log |-> {"Parquet validation failed"}]
    ELSE IF duckdb THEN [raised |-> FALSE, log |-> {"DuckDB validation succeeded"}]
    ELSE [raised |-> TRUE, log |-> {"DuckDB validation warning"}]

\* validate_parquet(path): both readers run under try / except, so the call
\* logs and returns None on every path
validate_parquet(file, ioerr, duckdb) ==
    IF file.kind # "table" \/ ioerr
    THEN [raised |-> FALSE, log |-> {"Parquet validation failed"}]
    ELSE IF duckdb THEN [raised |-> FALSE, log |-> {"DuckDB validation succeeded"}]
    ELSE [raised |-> FALSE, log |-> {"DuckDB validation warning"}]

\* what get_team logs after save_parquet's call of validate_parquet: an
\* exception out of save_parquet would reach the handler of line 165
ValidationEvents(v) ==
    v.log \cup (IF v.raised THEN {"Failed to flatten roster", "validate_parquet"} ELSE {})

\* line 82 of common.py, then lines 169-183: the advisory validation and the return
Validate(p) ==
    /\ pc[p] = "validate"
    /\ \E ioerr \in BOOLEAN, duckdb \in BOOLEAN :
            Finish(p, [run[p] EXCEPT !.events =
                            @ \cup ValidationEvents(validate_parquet(store, ioerr, duckdb))],
                   "returned", player_keys(run[p].roster))
    /\ UNCHANGED <<store, store0, standings, runs, nin, nout1, nout2, ext, cache>>

\* external termination of the process, the only way a started call is
\* cancelled; modelled where it can leave a trace, during the write
Kill(p) ==
    /\ pc[p] = "writing"
    /\ Finish(p, run[p], "killed", <<>>)
    /\ UNCHANGED <<store, store0, standings, runs, nin, nout1, nout2, ext, cache>>

Next ==
    \E p \in Procs :
        \/ FetchTeam(p)
        \/ Week(p)
        \/ ReadAndMerge(p)
        \/ WriteBegin(p)
        \/ WriteEnd(p)
        \/ Validate(p)
        \/ Kill(p)

Spec == Init /\ [][Next]_vars

TypeOK ==
    /\ store.kind \in {"absent", "corrupt", "table"}
    /\ store.kind = "table" => WellTyped(store.df)
    /\ \A p \in Procs :
        pc[p] \in {"idle", "weeks", "append", "write", "writing", "validate"}

-----------------------------------------------------------------------------
(* get_team calls of several processes on one store.  Nothing in get_team or *)
(* save_parquet takes a lock, so a call starts whatever the others are doing. *)

NumWriters == 2
Writers == 1..NumWriters

\* the rosters of the processes' teams: one player each, a different one
WriterRosters == {<<ItemAnn>>, <<ItemBob>>}

InitConc ==
    /\ store \in {Absent, File("table", CanonicalTable(<<1>>))}
    /\ store0 = store
    /\ standings = Absent
    /\ pc = [p \in Writers |-> "idle"]
    /\ run = [p \in Writers |-> NoRun]
    /\ ret = [p \in Writers |-> NoRet]
    /\ runs = 0
    /\ nin = EmptyDF
    /\ nout1 = NotRun
    /\ nout2 = NotRun
    /\ xin = NoCall /\ xout = NoCall
    /\ sin = NoCall /\ sout = NoCall
    /\ flog = <<>>
    /\ cache = [p \in Writers |-> EmptyDict]

\* lines 73-95, one call per process, started at any moment
FetchTeamUnlocked(p) ==
    /\ pc[p] = "idle"
    /\ ret[p].status = "none"
    /\ runs' = runs + 1
    /\ \E fetched \in BOOLEAN, roster \in WriterRosters :
            StartCall(p, fetched, PyStr("Team A"), roster, [k \in PlayerKeys |-> "ok"], 1)
    /\ cache' = [cache EXCEPT ![p] = EmptyDict]
    /\ UNCHANGED <<store, store0, standings, nin, nout1, nout2, ext>>

NextConc ==
    \E p \in Writers :
        \/ FetchTeamUnlocked(p)
        \/ Week(p)
        \/ ReadAndMerge(p)
        \/ WriteBegin(p)
        \/ WriteEnd(p)
        \/ Validate(p)
        \/ Kill(p)

SpecConc == InitConc /\ [][NextConc]_vars

-----------------------------------------------------------------------------
(* Harness of the extractor: roster_to_rows on one roster payload *)

\* a record whose preferred aliases hold 0 and "" next to usable fallbacks
ItemZero ==
    DictItem([player_key |-> PyStr("p1"), name |-> PyStr("Ann"),
              points |-> PyInt("0"), projected_points |-> PyFloat("5.5"),
              selected_position |-> PyStr(""), slot |-> PyStr("BN")])

\* a record with a preferred and a fallback alias of the same fields, all usable
ItemBoth ==
    DictItem([player_key |-> PyStr("p1"), player_id |-> PyStr("77"),
              name |-> PyStr("Ann"), full_name |-> PyStr("Ann B"),
              points |-> PyFloat("12.5"), projected_points |-> PyFloat("3.0"),
              week |-> PyInt("7")])

\* a record with a name and no key of the player
ItemNoKey == DictItem([name |-> PyStr("Cy"), position_type |-> PyStr("O")])

\* records whose only key of the player is under "id", and under "playerId"
ItemIdOnly == DictItem([id |-> PyStr("p1"), name |-> PyStr("Ann")])
ItemPlayerIdOnly == DictItem([playerId |-> PyStr("p2"), name |-> PyStr("Bob")])

ExtRosters ==
    {<<>>, RosterDicts, RosterStrs, RosterMixed, <<OtherItem("(1, 2)")>>,
     <<ItemZero>>, <<ItemBoth, ItemNoKey>>, <<ItemIdOnly, ItemPlayerIdOnly>>}

\* the lookups of a call: as in the runs, or none answers
ExtApis == Apis \cup {[k \in PlayerKeys |-> "fail"]}

InitExt ==
    /\ xin \in [called : {TRUE}, name : {Null, PyStr("Team A")}, roster : ExtRosters,
                team_key : Range(TeamKeys), api : ExtApis, roster_week : 1..MaxWeek]
    /\ xout = NoCall
    /\ standings \in StandingsStates
    /\ sin = NoCall /\ sout = NoCall
    /\ flog = <<>>
    /\ cache = [p \in Procs |-> EmptyDict]
    /\ nin = EmptyDF
    /\ nout1 = NotRun
    /\ nout2 = NotRun
    /\ store = Absent
    /\ store0 = Absent
    /\ pc = [p \in Procs |-> "idle"]
    /\ run = [p \in Procs |-> NoRun]
    /\ ret = [p \in Procs |-> NoRet]
    /\ runs = 0

\* xout = roster_to_rows(payload, team_key, sc, roster_week), with the rows it built
Extract ==
    /\ ~xout.called
    /\ xout' = [called |-> TRUE,
                rows |-> RosterRows(xin.name, xin.roster, xin.team_key, standings,
                                    xin.api, xin.roster_week),
                res |-> roster_to_rows(xin.name, xin.roster, xin.team_key, standings,
                                       xin.api, xin.roster_week)]
    /\ cache' = [cache EXCEPT ![1] =
                    CacheAfter(@, xin.roster, xin.api, PyInt(ToString(xin.roster_week)))]
    /\ UNCHANGED <<store, store0, standings, pc, run, ret, runs, nin, nout1, nout2,
                   xin, sin, sout, flog>>

\* get_team lines 130-134 on the table of the call: nout1 is the normaliser's
\* answer to the table roster_to_rows made
NormalizeBatch ==
    /\ xout.called /\ xout.res.ok /\ ~xout.res.none
    /\ ~nout1.ran
    /\ nout1' = Ran(_normalize_team_players_df(xout.res.df, standings))
    /\ UNCHANGED <<store, store0, standings, pc, run, ret, runs, nin, nout2, ext, cache>>

NextExt == Extract \/ NormalizeBatch

SpecExt == InitExt /\ [][NextExt]_vars

-----------------------------------------------------------------------------
(* transform_standings, ff/get_standings.py.  A standings table is [rows]:  *)
(* the rows are functions from column name to cell, all over the same       *)
(* columns.  A mapping-valued cell (a Struct) is [k |-> "dict", d |-> ...].  *)

PyDict(d) == [k |-> "dict", v |-> <<>>, d |-> d]

\* the columns of a table of standings rows
RowCols(rows) == UNION {DOMAIN rows[i] : i \in DOMAIN rows}

\* pl.DataFrame(raw): a key a record lacks is null in its row
FromRaw(raw) ==
    [i \in DOMAIN raw |->
        [c \in RowCols(raw) |-> IF c \in DOMAIN raw[i] THEN raw[i][c] ELSE Null]]

\* lines 28-38
rename_map(c) ==
    CASE c = "name" -> "Team"
      [] c = "wins" -> "W"
      [] c = "losses" -> "L"
      [] c = "ties" -> "T"
      [] c = "pct" -> "WinPct"
      [] c = "points_for" -> "PF"
      [] c = "points_against" -> "PA"
      [] c = "streak" -> "Streak"
      [] c = "rank" -> "Rank"
      [] OTHER -> c

\* line 39: df.rename(...); [ok, rows], ok FALSE when two columns get one name
Rename(rows) ==
    LET old == RowCols(rows)
        new == {rename_map(c) : c \in old}
    IN  IF Cardinality(new) # Cardinality(old) THEN [ok |-> FALSE, rows |-> <<>>]
        ELSE [ok |-> TRUE,
              rows |-> [i \in DOMAIN rows |->
                          [c \in new |-> rows[i][CHOOSE o \in old : rename_map(o) = c]]]]

\* lines 43-57: the dtype each column is cast to, and whether the cast is strict
StandingsCast(c) ==
    CASE c \in {"PF", "PA"} -> [to |-> "Float64", strict |-> TRUE]
      [] c \in {"W", "L", "T"} -> [to |-> "Int64", strict |-> TRUE]
      [] c = "Rank" -> [to |-> "Int64", strict |-> FALSE]
      [] c = "WinPct" -> [to |-> "Float64", strict |-> FALSE]
      [] OTHER -> [to |-> "", strict |-> FALSE]

\* lines 42-59: df.with_columns(casts).  cast() is strict unless told otherwise:
\* a value a strict cast cannot convert raises, a non-strict one makes it null
CastStandings(rows) ==
    LET cast(i, c) == IF StandingsCast(c).to = "" THEN rows[i][c]
                      ELSE CastCell(rows[i][c], StandingsCast(c).to)
        failed == \E i \in DOMAIN rows : \E c \in RowCols(rows) :
                        /\ StandingsCast(c).strict
                        /\ ~IsNull(rows[i][c]) /\ IsNull(cast(i, c))
    IN  IF failed THEN [ok |-> FALSE, rows |-> <<>>]
        ELSE [ok |-> TRUE,
              rows |-> [i \in DOMAIN rows |-> [c \in RowCols(rows) |-> cast(i, c)]]]

\* str(x) of a scalar: None is "None"
Str(c) == IF IsNull(c) THEN "None" ELSE Text(c)

UpperCase == <<"A", "B", "C", "D", "E", "F", "G", "H", "I", "J", "K", "L", "M",
               "N", "O", "P", "Q", "R", "S", "T", "U", "V", "W", "X", "Y", "Z">>
LowerCase == <<"a", "b", "c", "d", "e", "f", "g", "h", "i", "j", "k", "l", "m",
               "n", "o", "p", "q", "r", "s", "t", "u", "v", "w", "x", "y", "z">>

\* str.to_lowercase()
RECURSIVE ToLowercase(_)
ToLowercase(s) ==
    IF s = "" THEN ""
    ELSE LET ch == SubSeq(s, 1, 1)
             at == {i \in 1..26 : UpperCase[i] = ch}
         IN  (IF at = {} THEN ch ELSE LowerCase[CHOOSE i \in at : TRUE])
                \o ToLowercase(SubSeq(s, 2, Len(s)))

\* what map_elements hands the lambda for one cell: a Struct arrives as a dict
\* and a scalar as itself, but a List arrives as a polars Series, which is
\* neither a list, a tuple nor a dict
Handed(c) == IF c.k = "list" THEN [k |-> "series", v |-> c.v] ELSE c

\* lines 65-68: the first lambda on the Streak column
StreakType(s) ==
    IF s.k = "list" /\ Len(s.v) > 0 THEN PyStr(s.v[1])
    ELSE IF s.k = "dict" THEN Get(s.d, "type")
    ELSE Null

\* int(x) of a value whose str(x) is all digits
IntOfDigits(c) == PyInt(IntCanon(Str(c)))

\* lines 71-75: the second lambda on the Streak column
StreakLen(s) ==
    IF s.k = "list" /\ Len(s.v) > 1 /\ IsDigits(s.v[2]) THEN IntOfDigits(PyStr(s.v[2]))
    ELSE IF s.k = "dict" /\ IsDigits(Str(Get(s.d, "value")))
    THEN IntOfDigits(Get(s.d, "value"))
    ELSE Null

\* lines 80-83: W for win, L for loss, else the kind itself, "" for none
StreakLetter(type) ==
    IF IsNull(type) THEN ""
    ELSE IF ToLowercase(Text(type)) = "win" THEN "W"
    ELSE IF ToLowercase(Text(type)) = "loss" THEN "L"
    ELSE Text(type)

\* lines 62-92 on one row: StreakType, StreakLen and the compact Streak
FlattenStreak(row) ==
    IF "Streak" \notin DOMAIN row THEN row
    ELSE LET s == Handed(row["Streak"])
             type == IF IsNull(s) THEN Null ELSE CastCell(StreakType(s), "Utf8")
             len == IF IsNull(s) THEN Null ELSE StreakLen(s)
         IN  [c \in DOMAIN row \cup {"StreakType", "StreakLen"} |->
                CASE c = "StreakType" -> type
                  [] c = "StreakLen" -> len
                  [] c = "Streak" ->
                        PyStr(StreakLetter(type) \o (IF IsNull(len) THEN "" ELSE Text(len)))
                  [] OTHER -> row[c]]

\* lines 97-104: one of the four lambdas on the outcome_totals column
TotalsField(s, key, idx) ==
    IF s.k = "dict" THEN Get(s.d, key)
    ELSE IF s.k = "list" /\ Len(s.v) > idx THEN PyStr(s.v[idx + 1])
    ELSE Null

\* lines 113-121: WinPct keeps its value and is filled where it is null
FillWinPct(row, decoded) ==
    IF "WinPct" \in DOMAIN row /\ ~IsNull(row["WinPct"]) THEN row["WinPct"] ELSE decoded

\* lines 95-121 on one row: wins, losses, ties, percentage and WinPct
FlattenTotals(row) ==
    IF "outcome_totals" \notin DOMAIN row THEN row
    ELSE LET s == Handed(row["outcome_totals"])
             field(key, idx) == IF IsNull(s) THEN Null ELSE TotalsField(s, key, idx)
         IN  [c \in (DOMAIN row \ {"outcome_totals"})
                        \cup {"wins", "losses", "ties", "percentage", "WinPct"} |->
                CASE c = "wins" -> CastCell(field("wins", 0), "Int64")
                  [] c = "losses" -> CastCell(field("losses", 1), "Int64")
                  [] c = "ties" -> CastCell(field("ties", 2), "Int64")
                  [] c = "percentage" -> field("percentage", 3)
                  [] c = "WinPct" ->
                        FillWinPct(row, CastCell(field("percentage", 3), "Float64"))
                  [] OTHER -> row[c]]

\* lines 124-126
CastPlayoffSeed(row) ==
    IF "playoff_seed" \notin DOMAIN row THEN row
    ELSE [row EXCEPT !["playoff_seed"] = CastCell(@, "Int64")]

\* the number a text of digits denotes
RECURSIVE NatOf(_)
NatOf(s) ==
    IF s = "" THEN 0
    ELSE NatOf(SubSeq(s, 1, Len(s) - 1)) * 10
            + (CHOOSE n \in 0..9 : ToString(n) = SubSeq(s, Len(s), Len(s)))

\* a numeric cell's value in thousandths (the sort keys of the samples have at
\* most three decimals)
Milli(c) ==
    LET s == IF c.k = "int" THEN Text(c) \o ".0" ELSE Text(c)
        d == CHOOSE i \in DotAt(s) : TRUE
        ip == Magnitude(SubSeq(s, 1, d - 1))
        fp == SubSeq(SubSeq(s, d + 1, Len(s)) \o "00", 1, 3)
        m == NatOf(ip) * 1000 + NatOf(fp)
    IN  IF IsNegative(s) THEN 0 - m ELSE m

\* the order of two rows under sort keys [col, desc], nulls last: -1, 0 or 1
RECURSIVE Cmp(_, _, _)
Cmp(a, b, keys) ==
    IF keys = <<>> THEN 0
    ELSE LET x == a[Head(keys).col]
             y == b[Head(keys).col]
             here == IF IsNull(x) /\ IsNull(y) THEN 0
                     ELSE IF IsNull(x) THEN 1
                     ELSE IF IsNull(y) THEN -1
                     ELSE IF Milli(x) = Milli(y) THEN 0
                     ELSE IF (Milli(x) < Milli(y)) # Head(keys).desc THEN -1
                     ELSE 1
         IN  IF here # 0 THEN here ELSE Cmp(a, b, Tail(keys))

\* df.sort(...): a stable sort, a row goes after the rows it does not precede
RECURSIVE SortRows(_, _)
SortRows(rows, keys) ==
    IF rows = <<>> THEN <<>>
    ELSE LET done == SortRows(SubSeq(rows, 1, Len(rows) - 1), keys)
             r == rows[Len(rows)]
             n == Cardinality({i \in DOMAIN done : Cmp(done[i], r, keys) <= 0})
             \* done is sorted: the rows not after r are its first n rows
         IN  SubSeq(done, 1, n) \o <<r>> \o SubSeq(done, n + 1, Len(done))

\* mutant of SortKeys: the ranks are sorted from the highest down
SortKeysRankDescending(columns) ==
    IF "Rank" \in columns THEN <<[col |-> "Rank", desc |-> TRUE]>>
    ELSE IF "WinPct" \in columns
    THEN <<[col |-> "WinPct", desc |-> TRUE]>>
            \o (IF "W" \in columns THEN <<[col |-> "W", desc |-> TRUE]>> ELSE <<>>)
            \o (IF "wins" \in columns THEN <<[col |-> "wins", desc |-> TRUE]>> ELSE <<>>)
    ELSE <<>>

\* lines 129-141: by Rank ascending, else by WinPct, W and wins descending
SortKeys(columns) ==
    IF "Rank" \in columns THEN <<[col |-> "Rank", desc |-> FALSE]>>
    ELSE IF "WinPct" \in columns
    THEN <<[col |-> "WinPct", desc |-> TRUE]>>
            \o (IF "W" \in columns THEN <<[col |-> "W", desc |-> TRUE]>> ELSE <<>>)
            \o (IF "wins" \in columns THEN <<[col |-> "wins", desc |-> TRUE]>> ELSE <<>>)
    ELSE <<>>

\* lines 61-141 once the columns are renamed and cast
FlattenAndSort(rows) ==
    LET flat == [i \in DOMAIN rows |->
                    CastPlayoffSeed(FlattenTotals(FlattenStreak(rows[i])))]
    IN  SortRows(flat, SortKeys(RowCols(flat)))

\* lines 42-143 once the columns are renamed
CastFlattenSort(renamed) ==
    IF ~renamed.ok THEN [ok |-> FALSE, rows |-> <<>>]
    ELSE IF ~CastStandings(renamed.rows).ok THEN [ok |-> FALSE, rows |-> <<>>]
    ELSE [ok |-> TRUE, rows |-> FlattenAndSort(CastStandings(renamed.rows).rows)]

\* transform_standings(raw): [ok, rows], ok FALSE when it raises; the rows in
\* the order a sort that keeps the order of equal rows gives
transform_standings(raw) == CastFlattenSort(Rename(FromRaw(raw)))

\* the orders of 1..n
Perms(n) == {f \in [1..n -> 1..n] : \A i, j \in 1..n : f[i] = f[j] => i = j}

\* no row comes after a row it precedes under the keys
IsSorted(rows, keys) ==
    \A i \in 1..(Len(rows) - 1) : Cmp(rows[i], rows[i + 1], keys) <= 0

\* df.sort(...) has maintain_order=False: rows that are equal under the keys
\* come out in any order; without keys no sort is made
SortOutcomes(rows, keys) ==
    IF keys = <<>> THEN {rows}
    ELSE {q \in {[i \in DOMAIN rows |-> rows[f[i]]] : f \in Perms(Len(rows))} :
            IsSorted(q, keys)}

\* the results transform_standings(raw) can give
transform_outcomes(res) ==
    IF ~res.ok THEN {res}
    ELSE {[ok |-> TRUE, rows |-> q] :
            q \in SortOutcomes(res.rows, SortKeys(RowCols(res.rows)))}

-----------------------------------------------------------------------------
(* Harness of the flattener: transform_standings on one raw standings list *)

MaxStandRows == 2

SampleStreaks ==
    {PyDict([type |-> PyStr("win"), value |-> PyStr("3")]),
     PyDict([type |-> PyStr("loss"), value |-> PyStr("2")]),
     PyDict([type |-> PyStr("tie"), value |-> PyInt("1")]),
     PyDict([type |-> PyStr("Win"), value |-> PyStr("x")]),
     PyDict([type |-> PyStr("LOSS")]),
     PyList(<<"win", "3">>),
     Null}

SampleTotals ==
    {PyDict([wins |-> PyStr("5"), losses |-> PyStr("2"), ties |-> PyStr("1"),
             percentage |-> PyStr("0.7")]),
     PyDict([wins |-> PyInt("5"), losses |-> PyInt("2"), ties |-> PyInt("1"),
             percentage |-> PyStr("0.7")]),
     PyDict([wins |-> PyStr("x"), losses |-> PyStr("2"), ties |-> PyStr("1"),
             percentage |-> PyStr("n/a")]),
     PyList(<<"5", "2", "1", "0.7">>)}

\* one record of lg.standings(); "" stands for a key the record does not have
StandingsRecord(streak, totals, pct, rank, pf) ==
    LET keys == {"team_key", "name", "streak", "outcome_totals", "points_for"}
                    \cup (IF pct = "" THEN {} ELSE {"pct"})
                    \cup (IF rank = "" THEN {} ELSE {"rank"})
    IN  [c \in keys |->
            CASE c = "team_key" -> PyStr(TeamKeys[1])
              [] c = "name" -> PyStr("Giants")
              [] c = "streak" -> streak
              [] c = "outcome_totals" -> totals
              [] c = "pct" -> PyStr(pct)
              [] c = "rank" -> PyStr(rank)
              [] OTHER -> PyStr(pf)]

\* a second team, which has a rank and points only
OtherRecord ==
    [team_key |-> PyStr(TeamKeys[2]), name |-> PyStr("Rams"), rank |-> PyStr("1"),
     points_for |-> PyStr("90.0")]

SampleRecords ==
    {StandingsRecord(streak, totals, pct, rank, pf) :
        streak \in SampleStreaks, totals \in SampleTotals,
        pct \in {"", "0.5", "n/a"}, rank \in {"", "2", "n/a"}, pf \in {"101.5", "n/a"}}

\* a record of a team with any of a winning percentage, a rank and a number of
\* wins; "" stands for a key the record does not have
SortRecord(name, pct, rank, wins) ==
    [c \in {"name"} \cup (IF pct = "" THEN {} ELSE {"pct"})
                     \cup (IF rank = "" THEN {} ELSE {"rank"})
                     \cup (IF wins = "" THEN {} ELSE {"wins"}) |->
        CASE c = "name" -> PyStr(name)
          [] c = "pct" -> PyStr(pct)
          [] c = "rank" -> PyStr(rank)
          [] OTHER -> PyStr(wins)]

SortRecords(name) ==
    {SortRecord(name, pct, rank, wins) :
        pct \in {"", "0.5", "0.75", "n/a"}, rank \in {"", "1", "2", "n/a"},
        wins \in {"", "3", "5"}}

SampleRaws ==
    {<<r>> : r \in SampleRecords}
        \cup (IF MaxStandRows >= 2
              THEN {<<r, OtherRecord>> : r \in SampleRecords}
                    \cup {<<a, b>> : a \in SortRecords("A"), b \in SortRecords("B")}
              ELSE {})

InitStand ==
    /\ sin \in [called : {TRUE}, raw : SampleRaws]
    /\ sout = NoCall
    /\ xin = NoCall /\ xout = NoCall
    /\ flog = <<>>
    /\ cache = [p \in Procs |-> EmptyDict]
    /\ standings = Absent
    /\ nin = EmptyDF
    /\ nout1 = NotRun
    /\ nout2 = NotRun
    /\ store = Absent
    /\ store0 = Absent
    /\ pc = [p \in Procs |-> "idle"]
    /\ run = [p \in Procs |-> NoRun]
    /\ ret = [p \in Procs |-> NoRet]
    /\ runs = 0

\* sout = transform_standings(raw)
Flatten ==
    /\ ~sout.called
    /\ \E res \in transform_outcomes(transform_standings(sin.raw)) :
            sout' = [called |-> TRUE, res |-> res]
    /\ UNCHANGED <<store, store0, standings, pc, run, ret, runs, nin, nout1, nout2,
                   xin, xout, sin, flog, cache>>

NextStand == Flatten

SpecStand == InitStand /\ [][NextStand]_vars

-----------------------------------------------------------------------------
(* Harness of the week loop: one get_team call up to the end of its loop,   *)
(* with rosters whose flattening raises and records that name their week    *)

MaxLoopWeek == 3

\* a record whose week is a text: next to a record without a week its column
\* mixes texts and integers, and pl.DataFrame(rows) raises
ItemWeekText ==
    DictItem([player_key |-> PyStr("p1"), name |-> PyStr("Ann"), week |-> PyStr("wk1")])

RosterRaising == <<ItemAnn, ItemWeekText>>

\* the answers of the week's roster call
LoopRosters == {RosterDicts, RosterStrs, RosterRaising, <<ItemBoth>>}

InitLoop ==
    /\ store = Absent
    /\ store0 = Absent
    /\ standings = Absent
    /\ pc = [p \in Procs |-> "idle"]
    /\ run = [p \in Procs |-> NoRun]
    /\ ret = [p \in Procs |-> NoRet]
    /\ runs = 0
    /\ nin = EmptyDF
    /\ nout1 = NotRun
    /\ nout2 = NotRun
    /\ xin = NoCall /\ xout = NoCall
    /\ sin = NoCall /\ sout = NoCall
    /\ flog = <<>>
    /\ cache = [p \in Procs |-> EmptyDict]

\* lines 73-95: the call starts; current_week 0 stands for a week that could
\* not be determined
StartLoop(p) ==
    /\ pc[p] = "idle" /\ runs = 0
    /\ runs' = 1
    /\ \E roster \in {<<>>, RosterDicts}, current_week \in 0..MaxLoopWeek :
            StartCall(p, TRUE, PyStr("Team A"), roster, [k \in PlayerKeys |-> "ok"],
                      current_week)
    /\ cache' = [cache EXCEPT ![p] = EmptyDict]
    /\ UNCHANGED <<store, store0, standings, nin, nout1, nout2, ext>>

\* one iteration of the loop, with any of the answers
WeekAny(p) == WeekOf(p, LoopRosters \cup {<<>>})

NextLoop == \E p \in Procs : StartLoop(p) \/ WeekAny(p)

SpecLoop == InitLoop /\ [][NextLoop]_vars

-----------------------------------------------------------------------------
(* Harness of the enrichment cache: fetch_player calls of one process, whose *)
(* lookups may answer differently from one call to the next                 *)

MaxCalls == 3

\* the granularities and the weeks of the calls
StatTypes == {"week", "season"}
CallWeeks == {Null, PyInt("1"), PyInt("2")}

InitCache ==
    /\ flog = <<>>
    /\ cache = [p \in Procs |-> EmptyDict]
    /\ xin = NoCall /\ xout = NoCall
    /\ sin = NoCall /\ sout = NoCall
    /\ standings = Absent
    /\ nin = EmptyDF
    /\ nout1 = NotRun
    /\ nout2 = NotRun
    /\ store = Absent
    /\ store0 = Absent
    /\ pc = [p \in Procs |-> "idle"]
    /\ run = [p \in Procs |-> NoRun]
    /\ ret = [p \in Procs |-> NoRet]
    /\ runs = 0

\* the call has answered r: the log gets the call, the process its cache
Answered(r, api, player_key, stat_type, week) ==
    /\ flog' = Append(flog, [player_key |-> player_key, stat_type |-> stat_type,
                             week |-> week, answer |-> api[player_key],
                             external |-> r.external, result |-> r.result])
    /\ cache' = [cache EXCEPT ![1] = r.cache]

\* fetch_player(sc, player_key, stat_type, week) in process 1
FetchPlayer ==
    /\ Len(flog) < MaxCalls
    /\ \E api \in ExtApis, player_key \in PlayerKeys, stat_type \in StatTypes,
          week \in CallWeeks :
            Answered(fetch_player_cached(cache[1], api, player_key, stat_type, week),
                     api, player_key, stat_type, week)
    /\ UNCHANGED <<store, store0, standings, pc, run, ret, runs, nin, nout1, nout2,
                   xin, xout, sin, sout>>

NextCache == FetchPlayer

SpecCache == InitCache /\ [][NextCache]_vars

-----------------------------------------------------------------------------
(* Harness of the normaliser: apply it, then apply it to its own output *)

InitNorm ==
    /\ nin \in SampleFrames
    /\ standings \in StandingsStates
    /\ nout1 = NotRun
    /\ nout2 = NotRun
    /\ xin = NoCall /\ xout = NoCall
    /\ sin = NoCall /\ sout = NoCall
    /\ flog = <<>>
    /\ cache = [p \in Procs |-> EmptyDict]
    /\ store = Absent
    /\ store0 = Absent
    /\ pc = [p \in Procs |-> "idle"]
    /\ run = [p \in Procs |-> NoRun]
    /\ ret = [p \in Procs |-> NoRet]
    /\ runs = 0

\* nout1 = _normalize_team_players_df(nin)
NormalizeOnce ==
    /\ ~nout1.ran
    /\ nout1' = Ran(_normalize_team_players_df(nin, standings))
    /\ UNCHANGED <<store, store0, standings, pc, run, ret, runs, nin, nout2, ext, cache>>

\* nout2 = _normalize_team_players_df(nout1)
NormalizeAgain ==
    /\ nout1.ran /\ nout1.ok /\ ~nout2.ran
    /\ nout2' = Ran(_normalize_team_players_df(nout1.df, standings))
    /\ UNCHANGED <<store, store0, standings, pc, run, ret, runs, nin, nout1, ext, cache>>

NextNorm == NormalizeOnce \/ NormalizeAgain

SpecNorm == InitNorm /\ [][NextNorm]_vars

NormTypeOK ==
    /\ WellTyped(nin)
    /\ nout1.ok => WellTyped(nout1.df)

-----------------------------------------------------------------------------
(* Claims *)

\* a get_team call of process p has returned to its caller
Returned(p) == pc[p] = "idle" /\ ret[p].status = "returned"

\* the call had a batch to append, found a store and could not read it
ReadFailed(p) ==
    /\ ret[p].roster_df # EmptyDF
    /\ ret[p].pre.kind # "absent"
    /\ (ret[p].pre.kind = "corrupt" \/ ret[p].ioerr)

\* the call's validate_parquet could not re-open the file or the secondary reader failed
ValidationFailed(p) ==
    ret[p].events \cap {"Parquet validation failed", "DuckDB validation warning"} # {}

\* C1: for every batch (0, 1 or N rows, any subset and order of columns) the
\* normaliser returns without error a table whose columns and types are exactly
\* the declared canonical schema.
C1_NormalizerYieldsCanonical ==
    nout1.ran => (nout1.ok /\ IsCanonical(nout1.df))

\* C2: normalising an already normalised table succeeds and changes nothing:
\* normalize(normalize(T)) = normalize(T) for every T the normaliser accepts.
C2_NormalizeIdempotent ==
    nout2.ran => (nout2.ok /\ nout2.df = nout1.df)

\* C3: appending M normalised rows to a persisted canonical table of N rows
\* gives a store of N + M rows: the N old rows unchanged and in order, then the
\* M new rows in batch order; nothing is deduplicated.
C3_AppendKeepsAndAdds ==
    \A p \in Procs :
        (/\ Returned(p)
         /\ ret[p].normalized
         /\ ret[p].pre.kind = "table"
         /\ IsCanonical(ret[p].pre.df)
         /\ ~ReadFailed(p))
        => /\ store.kind = "table"
           /\ store.df.rows = ret[p].pre.df.rows \o ret[p].roster_df.rows
           /\ Height(store.df) = Height(ret[p].pre.df) + Height(ret[p].roster_df)

\* C3 witness: a batch is appended to a store that already ends with the same
\* batch, and the store then holds it twice.
C3_Witness ==
    \E p \in Procs :
        LET n == Height(ret[p].pre.df)
            m == Height(ret[p].roster_df)
        IN  /\ Returned(p)
            /\ ret[p].normalized
            /\ ret[p].pre.kind = "table"
            /\ IsCanonical(ret[p].pre.df)
            /\ m > 0 /\ n > m
            /\ SubSeq(ret[p].pre.df.rows, n - m + 1, n) = ret[p].roster_df.rows
            /\ store.kind = "table"
            /\ store.df.rows = ret[p].pre.df.rows \o ret[p].roster_df.rows

\* C4: when the store exists and reading it fails, the append aborts without
\* writing: the store after the call is exactly the store before it.
C4_ReadFailureWritesNothing ==
    \A p \in Procs : (Returned(p) /\ ReadFailed(p)) => store = ret[p].pre

\* C4 witness: a call with a batch met an unreadable store and left it as it was.
C4_Witness ==
    \E p \in Procs :
        /\ Returned(p) /\ ReadFailed(p)
        /\ ret[p].pre.kind = "corrupt"
        /\ "read_parquet" \in ret[p].events
        /\ store = ret[p].pre

\* C5: a failure to read the existing store surfaces to the caller of the
\* append as an error, so the caller can tell it from a successful run.
C5_ReadFailureSurfaces ==
    \A p \in Procs :
        (pc[p] = "idle" /\ ret[p].status # "none" /\ ReadFailed(p))
        => ret[p].status = "raised"

\* C6: starting from no store or from a canonical store, after any sequence of
\* appends the store is a canonical table, whatever the batches were and
\* whether or not their normalisation failed.
C6_StoreStaysCanonical ==
    (store0.kind = "absent" \/ (store0.kind = "table" /\ IsCanonical(store0.df)))
    => (store.kind = "table" => IsCanonical(store.df))

\* C7: when the persisted table holds only the original 7 roster columns, the
\* append upgrades it to the canonical schema, the union succeeds and the store
\* is written with the legacy rows followed by the new rows.
C7_LegacyStoreUpgraded ==
    \A p \in Procs :
        (/\ Returned(p)
         /\ ret[p].normalized
         /\ ret[p].pre.kind = "table"
         /\ ret[p].pre.df.columns = LegacyCols
         /\ ~ReadFailed(p))
        => LET n == Height(ret[p].pre.df)
               m == Height(ret[p].roster_df)
           IN  /\ store.kind = "table"
               /\ IsCanonical(store.df)
               /\ Height(store.df) = n + m
               /\ SubSeq(store.df.rows, n + 1, n + m) = ret[p].roster_df.rows
               /\ \A i \in 1..n : \A c \in Range(LegacyCols) :
                    store.df.rows[i][c] = ret[p].pre.df.rows[i][c]

\* C8: when no store exists, the append treats it as an empty canonical table:
\* afterwards the store holds exactly the normalised new rows, in batch order,
\* with the canonical schema.
C8_FreshStoreHoldsNormalizedBatch ==
    \A p \in Procs :
        (Returned(p) /\ ret[p].pre.kind = "absent" /\ ret[p].roster_df # EmptyDF)
        => /\ store = File("table", ret[p].roster_df)
           /\ IsCanonical(store.df)

\* C9: the write replaces the store atomically: whenever the store can be
\* observed, also after an interruption during the write, it holds the complete
\* previous contents or the complete concatenated table.
C9_WriteAtomic ==
    \A p \in Procs :
        /\ pc[p] \in {"write", "writing", "validate"}
            => (store = run[p].pre \/ store = File("table", run[p].combined))
        /\ (pc[p] = "idle" /\ ret[p].status = "killed")
            => (store = ret[p].pre \/ store = File("table", ret[p].combined))

\* C10: a failed post-write validation (re-open or secondary reader) is only
\* logged: nothing is raised, the written store stays as written and the call
\* returns as a successful append.
C10_ValidationAdvisory ==
    \A p \in Procs :
        (Returned(p) /\ ValidationFailed(p))
        => /\ "Saved" \in ret[p].events
           /\ "Failed to flatten roster" \notin ret[p].events
           /\ store = File("table", ret[p].combined)
           /\ ret[p].keys = player_keys(ret[p].roster)

\* C10 witness: the re-open of the written file failed and the call returned
\* with the store as written.
C10_Witness ==
    \E p \in Procs :
        /\ Returned(p)
        /\ "Parquet validation failed" \in ret[p].events
        /\ "Saved" \in ret[p].events
        /\ store = File("table", ret[p].combined)

\* a call of process p has written its table and returned
Wrote(p) ==
    /\ pc[p] = "idle" /\ ret[p].status = "returned"
    /\ ret[p].normalized /\ "Saved" \in ret[p].events

\* C11: with no locking, two appends on one store either run one after the
\* other, and the store then holds the rows of both after the rows it had, or
\* both read the store before either writes, and the store then holds the rows
\* of the last writer only: the other append's rows are lost.
C11_LostUpdate ==
    \A p \in Writers : \A q \in Writers \ {p} :
        (Wrote(p) /\ Wrote(q))
        => /\ ret[q].seen = File("table", ret[p].combined)
                => /\ store = File("table", ret[q].combined)
                   /\ store.df.rows = ret[p].seen.df.rows \o ret[p].roster_df.rows
                                            \o ret[q].roster_df.rows
           /\ ret[q].seen = ret[p].seen
                => /\ store \in {File("table", ret[p].combined), File("table", ret[q].combined)}
                   /\ Height(store.df) < Height(ret[p].seen.df) + Height(ret[p].roster_df)
                                            + Height(ret[q].roster_df)

\* C11 witness: both calls read the same store, both wrote, and a row of the
\* first writer is in the store no more.
C11_Witness ==
    \E p \in Writers : \E q \in Writers \ {p} :
        /\ Wrote(p) /\ Wrote(q)
        /\ ret[q].seen = ret[p].seen
        /\ store = File("table", ret[q].combined)
        /\ \E i \in 1..Height(ret[p].roster_df) :
                ret[p].roster_df.rows[i] \notin Range(store.df.rows)

\* the ordered aliases roster_to_rows reads for a field of a mapping-shaped record
Aliases(c) ==
    CASE c = "player_id" -> <<"player_key", "playerKey", "player_id", "id">>
      [] c = "player_name" -> <<"name", "full_name", "player_name">>
      [] c = "player" -> <<"player_key", "playerKey", "player_id", "id",
                           "name", "full_name", "player_name">>
      [] c \in {"player_positions", "eligible_positions"} ->
            <<"eligible_positions", "positions", "position">>
      [] c = "week" -> <<"week", "week_number">>
      [] c = "team_position" -> <<"selected_position", "lineup_position", "slot">>
      [] c = "points" -> <<"points", "projected_points", "season_points">>
      [] c = "player_status" -> <<"status", "injury_status">>
      [] c = "position_type" -> <<"position_type">>
      [] c = "selected_position" -> <<"selected_position", "selectedPos">>
      [] OTHER -> <<>>

AliasFields ==
    {"player_id", "player_name", "player", "player_positions", "eligible_positions",
     "team_position", "points", "player_status", "position_type", "selected_position"}

\* the value of the first alias that is present and not null, null when none is
RECURSIVE FirstNonNull(_, _)
FirstNonNull(d, keys) ==
    IF keys = <<>> THEN Null
    ELSE IF ~IsNull(Get(d, Head(keys))) THEN Get(d, Head(keys))
         ELSE FirstNonNull(d, Tail(keys))

\* the records of the extractor's call that have the given shape
RecordsOf(shape) == {i \in 1..Len(xin.roster) : xin.roster[i].shape = shape}

\* C12: for a mapping-shaped record every canonical field holds the value of
\* the first alias that is present and not null, whatever that value is (0 and
\* "" included), and null when no alias is present; the week falls back to the
\* week of the roster.
C12_FirstPresentAliasWins ==
    xout.called =>
        \A i \in RecordsOf("dict") :
            /\ \A c \in AliasFields :
                    xout.rows[i][c] = FirstNonNull(xin.roster[i].d, Aliases(c))
            /\ xout.rows[i]["week"] =
                    (IF IsNull(FirstNonNull(xin.roster[i].d, Aliases("week")))
                     THEN PyInt(ToString(xin.roster_week))
                     ELSE FirstNonNull(xin.roster[i].d, Aliases("week")))

\* C13: roster_to_rows never raises: for every roster it returns a table with
\* one row per record (nothing for an empty roster) and every canonical column.
C13_ExtractorNeverRaises ==
    xout.called =>
        /\ xout.res.ok
        /\ xout.res.none <=> xin.roster = <<>>
        /\ ~xout.res.none =>
                /\ Height(xout.res.df) = Len(xin.roster)
                /\ Range(cols) \subseteq ColSet(xout.res.df)

\* C14: a bare string is the player of its row, and no other record-derived
\* field of the row holds a value: positions, week, team position, points,
\* player_id and every enrichment field are null.
C14_BareStringIsPlayerOnly ==
    xout.called =>
        \A i \in RecordsOf("str") :
            /\ xout.rows[i]["player"] = PyStr(xin.roster[i].s)
            /\ \A c \in Range(ExtractorCols) \ {"team_key", "team_name", "player"} :
                    IsNull(Get(xout.rows[i], c))

\* C14 witness: a bare string came in a roster together with a mapping-shaped
\* record, under week 2, and its row of the table has a null week and player_id.
C14_Witness ==
    /\ xout.called /\ xout.res.ok /\ ~xout.res.none
    /\ xin.roster_week = 2
    /\ RecordsOf("dict") # {}
    /\ \E i \in RecordsOf("str") :
            /\ xout.res.df.rows[i]["player"] = PyStr("p3")
            /\ "player_id" \in ColSet(xout.res.df)
            /\ IsNull(xout.res.df.rows[i]["player_id"])
            /\ IsNull(xout.res.df.rows[i]["week"])

\* C15 as stated: a record that is neither a mapping nor a string leaves its
\* serialised form in a "raw" field that is not the identity field of bare
\* strings, and the rest of its record-derived fields, player included, is null.
C15_ReprInRawField ==
    xout.called =>
        \A i \in RecordsOf("other") :
            /\ IsNull(xout.rows[i]["player"])
            /\ \E c \in DOMAIN xout.rows[i] \ {"team_key", "team_name", "player"} :
                    xout.rows[i][c] = PyStr(xin.roster[i].s)

\* C15 amended: such a record leaves its serialised form in player, the field
\* a bare string is mapped to, and every other record-derived field is null.
C15_ReprInPlayerField ==
    xout.called =>
        \A i \in RecordsOf("other") :
            /\ xout.rows[i]["player"] = PyStr(xin.roster[i].s)
            /\ \A c \in Range(ExtractorCols) \ {"team_key", "team_name", "player"} :
                    IsNull(Get(xout.rows[i], c))

\* C15 witness: the tuple (1, 2) came after a bare string and a mapping, and
\* its row of the table has its repr as the player.
C15_Witness ==
    /\ xout.called /\ xout.res.ok /\ ~xout.res.none
    /\ RecordsOf("str") # {} /\ RecordsOf("dict") # {}
    /\ \E i \in RecordsOf("other") :
            /\ xout.res.df.rows[i]["player"] = PyStr("(1, 2)")
            /\ IsNull(xout.res.df.rows[i]["player_positions"])

\* the mapping-shaped records of the call whose player lookup gave nothing
LookupFailed ==
    {i \in RecordsOf("dict") :
        /\ ~IsNull(xout.rows[i]["player_id"])
        /\ \/ Text(xout.rows[i]["player_id"]) \notin DOMAIN xin.api
           \/ xin.api[Text(xout.rows[i]["player_id"])] = "fail"}

\* the keys of a row that the lookup's payload fills
EnrichmentFields == {"player_full_name", "primary_position"} \cup StatCols

\* C16 as stated: a record whose lookup failed has every enrichment field null,
\* player_full_name included, keeps its roster-level fields, and the other
\* records of the roster are processed.
C16_FailedLookupNullsEnrichment ==
    xout.called =>
        /\ Len(xout.rows) = Len(xin.roster)
        /\ \A i \in LookupFailed :
                /\ \A c \in EnrichmentFields : IsNull(xout.rows[i][c])
                /\ \A c \in AliasFields \ {"points", "selected_position", "team_position"} :
                        xout.rows[i][c] = FirstNonNull(xin.roster[i].d, Aliases(c))

\* C16 amended: a record whose lookup failed has primary_position and every
\* stat column null and the record's own name as player_full_name; it keeps
\* its roster-level fields, and the other records of the roster are processed.
C16_FailedLookupKeepsName ==
    xout.called =>
        /\ Len(xout.rows) = Len(xin.roster)
        /\ \A i \in LookupFailed :
                /\ \A c \in EnrichmentFields \ {"player_full_name"} : IsNull(xout.rows[i][c])
                /\ xout.rows[i]["player_full_name"] = xout.rows[i]["player_name"]
                /\ \A c \in AliasFields \ {"points", "selected_position", "team_position"} :
                        xout.rows[i][c] = FirstNonNull(xin.roster[i].d, Aliases(c))

\* C16 witness: the lookup of p2 failed and that of p1 answered: Bob's row has
\* his name, status and no statistics, Ann's row has hers.
C16_Witness ==
    /\ xout.called /\ xout.res.ok /\ ~xout.res.none
    /\ \E i \in LookupFailed : \E j \in RecordsOf("dict") \ LookupFailed :
            /\ xout.res.df.rows[i]["player_full_name"] = PyStr("Bob")
            /\ xout.res.df.rows[i]["player_status"] = PyStr("Q")
            /\ IsNull(xout.res.df.rows[i]["pass_yds"])
            /\ xout.res.df.rows[j]["pass_yds"] = PyFloat("250.0")
            /\ xout.res.df.rows[j]["total_points"] = PyFloat("18.5")

\* the row transform_standings returned for the team of a raw record
OutRow(rec) == CHOOSE r \in Range(sout.res.rows) : r["Team"] = rec["name"]

\* element idx of a pair or sequence, or the value under key of a mapping
Part(s, key, idx) ==
    IF s.k = "list" THEN (IF Len(s.v) >= idx THEN PyStr(s.v[idx]) ELSE Null)
    ELSE Get(s.d, key)

\* the compact streak promised for a (kind, length) pair or a type / value mapping
PromisedStreak(s) ==
    LET kind == Part(s, "type", 1)
        len == Part(s, "value", 2)
    IN  (IF IsNull(kind) THEN ""
         ELSE IF ToLowercase(Text(kind)) = "win" THEN "W"
         ELSE IF ToLowercase(Text(kind)) = "loss" THEN "L"
         ELSE Text(kind))
        \o (IF ~IsNull(len) /\ IsDigits(Str(len)) THEN Str(len) ELSE "")

\* the raw records of the flattener's call whose field is a pair, a sequence or a mapping
Composite(field) ==
    {i \in DOMAIN sin.raw :
        field \in DOMAIN sin.raw[i] /\ sin.raw[i][field].k \in {"list", "dict"}}

\* C17: a streak given as a (kind, length) pair or as a type / value mapping
\* becomes one string: W for win and L for loss in any case, else the kind
\* itself, then the length when it is a string of digits: ("win","3") is W3.
C17_StreakDecoded ==
    (sout.called /\ sout.res.ok) =>
        \A i \in Composite("streak") :
            OutRow(sin.raw[i])["Streak"] = PyStr(PromisedStreak(sin.raw[i]["streak"]))

\* C18: outcome totals given as a mapping or as a 4-element sequence become
\* integer wins, losses and ties; WinPct keeps a value it has and is filled from
\* the decoded percentage where it is null or absent.
C18_TotalsDecoded ==
    (sout.called /\ sout.res.ok) =>
        \A i \in Composite("outcome_totals") :
            LET s == sin.raw[i]["outcome_totals"]
                out == OutRow(sin.raw[i])
                had == IF "pct" \in DOMAIN sin.raw[i]
                       THEN CastCell(sin.raw[i]["pct"], "Float64") ELSE Null
            IN  /\ out["wins"] = CastCell(Part(s, "wins", 1), "Int64")
                /\ out["losses"] = CastCell(Part(s, "losses", 2), "Int64")
                /\ out["ties"] = CastCell(Part(s, "ties", 3), "Int64")
                /\ out["WinPct"] = (IF IsNull(had)
                                    THEN CastCell(Part(s, "percentage", 4), "Float64")
                                    ELSE had)

\* C19: a value that cannot be coerced to the numeric type of its column (PF,
\* Rank, WinPct, the decoded wins, losses and ties) is null in that cell only:
\* transform_standings raises nothing, keeps the row and its other cells.
C19_CoercionNullsCell ==
    sout.called =>
        /\ sout.res.ok
        /\ Len(sout.res.rows) = Len(sin.raw)
        /\ \A i \in DOMAIN sin.raw :
                LET rec == sin.raw[i]
                    out == OutRow(rec)
                IN  /\ out["team_key"] = rec["team_key"]
                    /\ out["PF"] = CastCell(rec["points_for"], "Float64")
                    /\ "rank" \in DOMAIN rec => out["Rank"] = CastCell(rec["rank"], "Int64")
                    /\ i \in Composite("outcome_totals") /\ rec["outcome_totals"].k = "dict"
                        => \A c \in {"wins", "losses", "ties"} :
                            out[c] = CastCell(Get(rec["outcome_totals"].d, c), "Int64")

\* the numeric columns of the canonical schema
NumericCols == {"week", "points"} \cup StatCols

\* a cell holds a text that denotes no number of the given type
NotCoercible(c, type) ==
    /\ c.k = "str"
    /\ IF type = "Int64" THEN ~IsIntText(Text(c)) ELSE ~IsFloatText(Text(c))

\* the cells of the output against those of the input, when the call returns
CastKeepsShape ==
    /\ Height(nout1.df) = Height(nin)
    /\ \A i \in 1..Height(nin) : \A c \in Range(cols) :
            /\ nout1.df.rows[i][c].k \in {"null", KindOf(DeclaredType(c))}
            /\ c \in ColSet(nin) \cap NumericCols =>
                /\ NotCoercible(nin.rows[i][c], DeclaredType(c))
                        => IsNull(nout1.df.rows[i][c])
                /\ nin.rows[i][c].k = KindOf(DeclaredType(c))
                        => nout1.df.rows[i][c] = nin.rows[i][c]
            /\ (c \in ColSet(nin) \ (NumericCols \cup {"team_name"})
                    /\ nin.rows[i][c].k = "str")
                => nout1.df.rows[i][c] = nin.rows[i][c]

\* C20: the normaliser casts every declared column non-strictly: the call does
\* not raise, a value that cannot be coerced to its column's type is null in
\* the output, the row count is kept, a cell already of its column's type is
\* unchanged and every cell is null or of that type.
C20_NonStrictCast ==
    nout1.ran => (nout1.ok /\ CastKeepsShape)

\* the key column and the name column of the reference table: the first alias
\* that is one of its columns, "" when none is
KeyAlias(s) ==
    IF "team_key" \in ColSet(s) THEN "team_key"
    ELSE IF "teamKey" \in ColSet(s) THEN "teamKey" ELSE ""

NameAlias(s) ==
    IF "Team" \in ColSet(s) THEN "Team"
    ELSE IF "name" \in ColSet(s) THEN "name" ELSE ""

\* the rows of the reference table that map a key
RefRows(st, key) ==
    IF st.kind # "table" \/ KeyAlias(st.df) = "" \/ NameAlias(st.df) = "" THEN {}
    ELSE {i \in 1..Height(st.df) : st.df.rows[i][KeyAlias(st.df)] = key}

\* the name the reference table maps a key to (the last row of the key)
RefName(st, key) ==
    st.df.rows[CHOOSE i \in RefRows(st, key) : \A j \in RefRows(st, key) : j <= i]
              [NameAlias(st.df)]

\* a cell of the normaliser's input, null when the input has no such column
InCell(i, c) == IF c \in ColSet(nin) THEN nin.rows[i][c] ELSE Null

\* C21: when the normaliser returns, a row whose team_name is null and whose
\* team_key the reference table maps (under its first key alias and first
\* name alias) has the mapped name, a row with a null team_name and an
\* unmapped key has a null team_name, and a non-null team_name is unchanged.
C21_CrossReferenceFill ==
    (nout1.ran /\ nout1.ok) =>
        \A i \in 1..Height(nin) :
            LET name == InCell(i, "team_name")
                key == CastCell(InCell(i, "team_key"), "Utf8")
            IN  nout1.df.rows[i]["team_name"] =
                    IF ~IsNull(name) THEN CastCell(name, "Utf8")
                    ELSE IF RefRows(standings, key) = {} THEN Null
                    ELSE RefName(standings, key)

\* C21 witness: the reference table has both aliases; of two rows the first has
\* no team_name and the first team key and is filled to "Gridiron Giants" (not
\* the name under the second alias), the second keeps its own name.
C21_Witness ==
    /\ nout1.ran /\ nout1.ok
    /\ standings = File("table", BothAliases)
    /\ Height(nin) = 2
    /\ "team_name" \in ColSet(nin) /\ "team_key" \in ColSet(nin)
    /\ IsNull(nin.rows[1]["team_name"])
    /\ nin.rows[1]["team_key"] = PyStr(TeamKeys[1])
    /\ nin.rows[2]["team_name"] = PyStr("Team B")
    /\ nout1.df.rows[1]["team_name"] = PyStr("Gridiron Giants")
    /\ nout1.df.rows[2]["team_name"] = PyStr("Team B")

\* the reference table is missing, unreadable or without a key / name alias pair
NoPair(st) == st.kind # "table" \/ KeyAlias(st.df) = "" \/ NameAlias(st.df) = ""

\* C22: with a reference table that is missing, unreadable or without an alias
\* pair, the fill is a no-op and raises nothing: the rows roster_to_rows builds
\* carry the payload's own team name (null when it has none), the normaliser
\* raises only for the columns its cast block misses, never for the reference
\* table, and the team_name cells it returns are those of its input.
C22_NoReferenceNoFill ==
    NoPair(standings) =>
        /\ xout.called =>
                /\ xout.res.ok
                /\ \A i \in DOMAIN xout.rows :
                        Get(xout.rows[i], "team_name")
                            = IF Truthy(xin.name) THEN xin.name ELSE Null
        /\ nout1.ran =>
                /\ nout1.ok <=> {"player_metadata", "player_stats"} \subseteq ColSet(xout.res.df)
                /\ nout1.ok =>
                        /\ Height(nout1.df) = Height(xout.res.df)
                        /\ \A i \in 1..Height(nout1.df) :
                                nout1.df.rows[i]["team_name"]
                                    = xout.res.df.rows[i]["team_name"]

\* C22 witness: the reference table cannot be read, the payload has no team
\* name, and the normaliser returned the rows of a roster with their null names.
C22_Witness ==
    /\ standings = Corrupt
    /\ xout.called /\ IsNull(xin.name)
    /\ nout1.ran /\ nout1.ok
    /\ Height(nout1.df) = 2
    /\ \A i \in 1..2 : IsNull(nout1.df.rows[i]["team_name"])

\* the position columns the normaliser materialises
PositionCols == {"player_positions", "eligible_positions"}

\* the elements of a sequence of texts in order, a comma between neighbours
RECURSIVE CommaSeparated(_)
CommaSeparated(q) ==
    IF q = <<>> THEN ""
    ELSE IF Tail(q) = <<>> THEN q[1]
    ELSE q[1] \o "," \o CommaSeparated(Tail(q))

\* C23: when the normaliser returns, each position column is of type text; a
\* cell that was a sequence holds its elements joined by commas in order, a
\* null cell is null, a text cell is unchanged and any other scalar is its text.
C23_PositionsMaterialized ==
    (nout1.ran /\ nout1.ok) =>
        \A c \in PositionCols :
            /\ nout1.df.dtypes[c] = "Utf8"
            /\ \A i \in 1..Height(nin) :
                    nout1.df.rows[i][c] =
                        CASE IsNull(InCell(i, c)) -> Null
                          [] InCell(i, c).k = "list" -> PyStr(CommaSeparated(InCell(i, c).v))
                          [] InCell(i, c).k = "str" -> InCell(i, c)
                          [] OTHER -> PyStr(Text(InCell(i, c)))

\* C23 witness: a frame whose position columns are lists, with ["QB", "WR"] in
\* the first row and null in the second, comes back with "QB,WR" and null.
C23_Witness ==
    /\ nout1.ran /\ nout1.ok
    /\ Height(nin) = 2
    /\ PositionCols \subseteq ColSet(nin)
    /\ \A c \in PositionCols :
            /\ nin.rows[1][c] = PyList(<<"QB", "WR">>)
            /\ IsNull(nin.rows[2][c])
            /\ nout1.df.rows[1][c] = PyStr("QB,WR")
            /\ IsNull(nout1.df.rows[2][c])

\* the earlier calls of the log with the player key, granularity and week of call j
EarlierSame(j) ==
    {i \in 1..(j - 1) : /\ flog[i].player_key = flog[j].player_key
                        /\ flog[i].stat_type = flog[j].stat_type
                        /\ flog[i].week = flog[j].week}

RowsOf(file) == IF file.kind = "table" THEN file.df.rows ELSE <<>>

\* sequence a is the beginning of sequence b
IsPrefix(a, b) == Len(a) <= Len(b) /\ SubSeq(b, 1, Len(a)) = a

\* C26: with the calls running one after the other, in every step in which a
\* get_team call returns (having written, failed or skipped the write), the rows
\* the store held when the call started are, with the same values and in the
\* same order, the beginning of the rows it holds after the step; the row count
\* has not decreased.
C26_StoreGrowsByAppend ==
    [][\A p \in Procs :
        (pc[p] # "idle" /\ pc'[p] = "idle" /\ ret'[p].status = "returned") =>
            /\ IsPrefix(RowsOf(ret'[p].pre), RowsOf(store'))
            /\ Len(RowsOf(store')) >= Len(RowsOf(ret'[p].pre))]_vars

\* C26 witness: the second call of a sequence has returned after a write, and
\* the store holds the rows it held before that call and more after them.
C26_Witness ==
    \E p \in Procs :
        /\ Returned(p) /\ runs = 2
        /\ "Saved" \in ret[p].events
        /\ Len(RowsOf(ret[p].pre)) > 0
        /\ Len(RowsOf(store)) > Len(RowsOf(ret[p].pre))
        /\ IsPrefix(RowsOf(ret[p].pre), RowsOf(store))

\* what the finished call of p met
FetchFailed(p) == "Team API fetch failed" \in ret[p].events
NoRows(p) == ret[p].roster_df = EmptyDF
NormalizationRaised(p) == "normalization failed" \in ret[p].events
AppendRaised(p) == "Failed to flatten roster" \in ret[p].events

\* the key of a roster record as the caller gets it: of a mapping its first
\* truthy key alias, of a bare string the string, of anything else nothing
KeyOfItem(item) ==
    IF item.shape = "str" THEN <<PyStr(item.s)>>
    ELSE IF item.shape # "dict" THEN <<>>
    ELSE IF Truthy(Get(item.d, "player_key")) THEN <<item.d["player_key"]>>
    ELSE IF Truthy(Get(item.d, "playerKey")) THEN <<item.d["playerKey"]>>
    ELSE IF Truthy(Get(item.d, "player_id")) THEN <<item.d["player_id"]>>
    ELSE IF Truthy(Get(item.d, "playerId")) THEN <<item.d["playerId"]>>
    ELSE <<>>

RECURSIVE KeysOf(_)
KeysOf(roster) ==
    IF roster = <<>> THEN <<>> ELSE KeyOfItem(Head(roster)) \o KeysOf(Tail(roster))

\* the list the caller gets: empty after a failed Team fetch, else the roster's keys
ReturnsItsKeys(p) ==
    ret[p].keys = IF FetchFailed(p) THEN <<>> ELSE KeysOf(ret[p].roster)

\* C27: a get_team call whose Team fetch failed, whose roster gave no rows, or
\* in which the normalisation, the concatenation or the read of the append
\* raised leaves the store as it was before the call and returns a list: the
\* empty list after a failed fetch, else the roster's player keys.
C27_NoWriteLeavesStore ==
    \A p \in Procs :
        (Returned(p) /\ (FetchFailed(p) \/ NoRows(p) \/ NormalizationRaised(p)
                          \/ AppendRaised(p)))
        => (store = ret[p].pre /\ ReturnsItsKeys(p))

\* the roster that week k of the call flattens: the answer of the week's roster
\* call, the payload's roster when that call failed or gave nothing
UsedRoster(r, k) == IF r.answers[k] # <<>> THEN r.answers[k] ELSE r.roster

\* what roster_to_rows makes of week k
WeekGot(r, k) ==
    roster_to_rows(r.name, UsedRoster(r, k), r.team_key, standings, r.api, k)

\* the frames of the weeks 1..n that flattened to at least one row, in week order
RECURSIVE WeekFrames(_, _)
WeekFrames(r, n) ==
    IF n = 0 THEN <<>>
    ELSE WeekFrames(r, n - 1)
         \o (IF WeekGot(r, n).ok /\ ~WeekGot(r, n).none /\ Height(WeekGot(r, n).df) > 0
             THEN <<WeekGot(r, n).df>> ELSE <<>>)

\* the week of a record's row: the week the record names, else the loop's week
RowWeek(item, k) ==
    IF item.shape # "dict" THEN Null
    ELSE IF Truthy(Get(item.d, "week")) THEN item.d["week"]
    ELSE IF Truthy(Get(item.d, "week_number")) THEN item.d["week_number"]
    ELSE PyInt(ToString(k))

\* the frame of week k has one row per record of the week's roster, in roster order
InRosterOrder(r, k) ==
    (WeekGot(r, k).ok /\ ~WeekGot(r, k).none) =>
        /\ Height(WeekGot(r, k).df) = Len(UsedRoster(r, k))
        /\ \A i \in 1..Len(UsedRoster(r, k)) :
                /\ UsedRoster(r, k)[i].shape = "dict" =>
                        /\ WeekGot(r, k).df.rows[i]["week"] = RowWeek(UsedRoster(r, k)[i], k)
                        /\ WeekGot(r, k).df.rows[i]["player_name"]
                                = OrNone(OrChain(<<Get(UsedRoster(r, k)[i].d, "name"),
                                                   Get(UsedRoster(r, k)[i].d, "full_name"),
                                                   Get(UsedRoster(r, k)[i].d, "player_name")>>))
                /\ UsedRoster(r, k)[i].shape = "str" =>
                        WeekGot(r, k).df.rows[i]["player"] = PyStr(UsedRoster(r, k)[i].s)

\* C28: the loop runs the weeks 1..current_week in order (current_week is 1
\* when it could not be determined); the frames collected are those of the
\* weeks that flattened to rows, in week order, each with its roster's records
\* in roster order; a week without an answer flattens the payload's roster, and
\* a week whose flattening raises adds nothing and removes nothing.
C28_BatchWeekByWeek ==
    \A p \in Procs :
        pc[p] \in {"weeks", "append"} =>
            /\ run[p].current_week >= 1
            /\ Len(run[p].answers) = run[p].wk - 1
            /\ run[p].wk - 1 <= run[p].current_week
            /\ pc[p] = "append" <=> run[p].wk - 1 = run[p].current_week
            /\ run[p].all_rows = WeekFrames(run[p], run[p].wk - 1)
            /\ \A k \in 1..(run[p].wk - 1) : InRosterOrder(run[p], k)

\* C28 witness: of three weeks the first has no answer and flattens the
\* payload's roster, the second raises, the third answers; the loop ends with
\* the frames of the weeks 1 and 3, in that order.
C28_Witness ==
    \E p \in Procs :
        /\ pc[p] = "append"
        /\ run[p].current_week = 3
        /\ run[p].roster = RosterDicts
        /\ run[p].answers = <<(<<>>), RosterRaising, RosterDicts>>
        /\ "failed to fetch/flatten roster" \in run[p].events
        /\ Len(run[p].all_rows) = 2
        /\ run[p].all_rows[1].rows[1]["week"] = PyInt("1")
        /\ run[p].all_rows[2].rows[1]["week"] = PyInt("3")

\* C29: for every mapping-shaped record of a roster, get_team returns a key
\* for the record exactly when the record's row has a player_id, and the key
\* it returns is that player_id.
C29_ReturnedKeyIsRowPlayerId ==
    xout.called =>
        \A i \in DOMAIN xin.roster :
            xin.roster[i].shape = "dict" =>
                /\ player_keys(<<xin.roster[i]>>) # <<>>
                        <=> ~IsNull(Get(xout.rows[i], "player_id"))
                /\ player_keys(<<xin.roster[i]>>) # <<>>
                        => player_keys(<<xin.roster[i]>>)[1] = Get(xout.rows[i], "player_id")

\* the keys the rows are to be ordered by: the rank upwards, else the winning
\* percentage and then the wins downwards
OrderKeys(rows) ==
    IF "Rank" \in RowCols(rows) THEN <<[col |-> "Rank", desc |-> FALSE]>>
    ELSE IF "WinPct" \in RowCols(rows)
    THEN <<[col |-> "WinPct", desc |-> TRUE]>>
            \o (IF "W" \in RowCols(rows) THEN <<[col |-> "W", desc |-> TRUE]>> ELSE <<>>)
            \o (IF "wins" \in RowCols(rows) THEN <<[col |-> "wins", desc |-> TRUE]>>
                ELSE <<>>)
    ELSE <<>>

\* the teams of the records, and of the rows
TeamsIn(raw) == [i \in DOMAIN raw |-> raw[i]["name"]]
TeamsOut(rows) == [i \in DOMAIN rows |-> rows[i]["Team"]]

\* C30: when transform_standings returns, it has one row per record; with a
\* Rank column the rows are in ascending rank, null ranks last; else with a
\* WinPct column in descending WinPct, then descending wins, nulls last; with
\* neither the rows are in the order of the records.
C30_OneRowPerRecordOrdered ==
    (sout.called /\ sout.res.ok) =>
        /\ Len(sout.res.rows) = Len(sin.raw)
        /\ \E f \in Perms(Len(sin.raw)) :
                \A i \in DOMAIN sin.raw : TeamsOut(sout.res.rows)[f[i]] = TeamsIn(sin.raw)[i]
        /\ \A i \in DOMAIN sout.res.rows : \A j \in DOMAIN sout.res.rows :
                i < j => Cmp(sout.res.rows[i], sout.res.rows[j], OrderKeys(sout.res.rows)) <= 0
        /\ OrderKeys(sout.res.rows) = <<>> => TeamsOut(sout.res.rows) = TeamsIn(sin.raw)

\* C30 witness: of two records the first has a rank that is no number and the
\* second the rank 2; the second comes out first, the null rank last.
C30_Witness ==
    /\ sout.called /\ sout.res.ok
    /\ sin.raw = <<SortRecord("A", "", "n/a", ""), SortRecord("B", "", "2", "")>>
    /\ TeamsOut(sout.res.rows) = <<PyStr("B"), PyStr("A")>>
    /\ IsNull(sout.res.rows[2]["Rank"])

====
